---- MODULE Spec2Model ----
(***************************************************************************)
(* Catalog-enrichment crawler of wega-catalog-api: the Scraper Service     *)
(* (coordinator, bounded work channel, worker pool, per-vehicle pipeline), *)
(* the Checkpoint Manager, the Progress Tracker and the two stores the     *)
(* pipeline writes to.  A behaviour is a sequence of process runs over the *)
(* same database and the same checkpoint file.                             *)
(*                                                                         *)
(* Text is modelled as a sequence of tokens; the token "-" stands for the  *)
(* separator " - " of a vehicle description.  Timestamps, log records and  *)
(* the display-only tracker fields (CurrentVehicle, LastError, StartedAt)  *)
(* are left out: no operation of the model reads them.                     *)
(***************************************************************************)
EXTENDS Integers, Sequences, FiniteSets, TLC

\* ------------------------------------------------------------------ bounds
NumVehicles == 4
MaxRuns == 2
MaxWorkers == 2

\* Configuration of a run (ScraperConfig).
CheckpointEvery == 2

VehicleIds == 1..NumVehicles
WorkerIds == 1..MaxWorkers
NoCheckpoint == -1

\* ------------------------------------------------------------------ text
Lower(tok) ==
  CASE tok = "Scania" -> "scania"
    [] tok = "SCANIA" -> "scania"
    [] tok = "Ford" -> "ford"
    [] tok = "Volkswagen" -> "volkswagen"
    [] tok = "Gol" -> "gol"
    [] tok = "Cargo" -> "cargo"
    [] tok = "R450" -> "r450"
    [] tok = "Flex" -> "flex"
    [] tok = "TSI" -> "tsi"
    [] tok = "Turbo" -> "turbo"
    [] tok = "VW" -> "vw"
    [] tok = "Golf" -> "golf"
    [] tok = "Power" -> "power"
    [] tok = "Fiat" -> "fiat"
    [] tok = "Chevy" -> "chevy"
    [] tok = "Polo" -> "polo"
    [] tok = "Uno" -> "uno"
    [] tok = "Fox" -> "fox"
    [] OTHER -> tok

Title(tok) ==
  CASE tok = "scania" -> "Scania"
    [] tok = "ford" -> "Ford"
    [] tok = "volkswagen" -> "Volkswagen"
    [] tok = "gol" -> "Gol"
    [] tok = "cargo" -> "Cargo"
    [] tok = "r450" -> "R450"
    [] tok = "flex" -> "Flex"
    [] OTHER -> tok

ToLower(s) == [i \in DOMAIN s |-> Lower(s[i])]

\* strings.Contains(s, sub) on token sequences; the empty text is in every text.
StrContains(s, sub) ==
  \E i \in 0..(Len(s) - Len(sub)) :
    \A j \in 1..Len(sub) : s[i + j] = sub[j]

\* strings.Index(s, sep): the first position of the token, 0 when absent.
IndexOfTok(s, tok) ==
  IF \E i \in DOMAIN s : s[i] = tok
  THEN CHOOSE i \in DOMAIN s : s[i] = tok /\ \A j \in 1..(i - 1) : s[j] # tok
  ELSE 0

normalizeString(s) == [i \in DOMAIN s |-> Title(Lower(s[i]))]

commercialBrands == {<<"scania">>}
commercialVehiclePatterns == {<<"cargo">>, <<"17.280">>}

\* The filter without its pattern scan: commercial brands only.
isCommercialVehicleBrandOnly(brand, modelName, description) ==
  \E cb \in commercialBrands : StrContains(ToLower(brand), cb)

isCommercialVehicle(brand, modelName, description) ==
  LET brandLower == ToLower(brand)
      combined == ToLower(modelName) \o <<" ">> \o ToLower(description)
  IN  \/ \E cb \in commercialBrands : StrContains(brandLower, cb)
      \/ \E pattern \in commercialVehiclePatterns : StrContains(combined, pattern)

\* The brand parseVehicleDescription starts from: Fabricante, else Marca.
BrandOf(vehicle) ==
  IF vehicle.Fabricante = <<>> THEN vehicle.Marca ELSE vehicle.Fabricante

\* The base model name: Modelo, else DescricaoAplicacao, cut before the first
\* " - " and then before the first " /" found past its start.
BaseModelOf(vehicle) ==
  LET model0 == IF vehicle.Modelo = <<>> THEN vehicle.DescricaoAplicacao ELSE vehicle.Modelo
      idx == IndexOfTok(model0, "-")
      cut == IF idx > 1 THEN SubSeq(model0, 1, idx - 1) ELSE model0
      idx2 == IndexOfTok(cut, "/")
  IN  IF idx2 > 1 THEN SubSeq(cut, 1, idx2 - 1) ELSE cut

parseVehicleDescription(vehicle) ==
  LET brand0 == BrandOf(vehicle)
      model1 == BaseModelOf(vehicle)
  IN  IF brand0 = <<>> \/ model1 = <<>>
      THEN [err |-> TRUE, brand |-> <<>>, modelName |-> <<>>]
      ELSE [err |-> FALSE, brand |-> normalizeString(brand0),
            modelName |-> normalizeString(model1)]

isExactMatch(wega, motulDescription) ==
  LET wegaDesc == normalizeString(wega.DescricaoAplicacao)
      motulDesc == normalizeString(motulDescription)
  IN  StrContains(wegaDesc, motulDesc) \/ StrContains(motulDesc, wegaDesc)


\* -------------------------------------------------------- input domains
\* Rows of the APLICACAO table as processVehicle sees them (model.Aplicacao).
Car == [Fabricante |-> <<"Volkswagen">>, Marca |-> <<>>,
        Modelo |-> <<"Gol", "-", "Flex">>, DescricaoAplicacao |-> <<>>]
CarDescribed == [Fabricante |-> <<>>, Marca |-> <<"Volkswagen">>,
        Modelo |-> <<"Gol", "/", "Cargo">>, DescricaoAplicacao |-> <<"Gol", "Flex">>]
Truck == [Fabricante |-> <<"SCANIA">>, Marca |-> <<>>,
        Modelo |-> <<"R450">>, DescricaoAplicacao |-> <<>>]
CargoTruck == [Fabricante |-> <<"Ford">>, Marca |-> <<>>,
        Modelo |-> <<>>, DescricaoAplicacao |-> <<"Cargo", "17.280">>]
Unbranded == [Fabricante |-> <<>>, Marca |-> <<>>,
        Modelo |-> <<"Cargo">>, DescricaoAplicacao |-> <<>>]

\* Replies of the deterministic Advisor stub to the matcher call and to the
\* specification call: search_err, no_vehicle, specs_err, no_specs, specs.
\* A vehicle of the database together with the stub's reply for it.
Profiles == <<
  [row |-> Car, reply |-> "specs"],
  [row |-> Truck, reply |-> "specs"],
  [row |-> Car, reply |-> "search_err"],
  [row |-> CarDescribed, reply |-> "specs"],
  [row |-> CargoTruck, reply |-> "specs"],
  [row |-> Car, reply |-> "specs_err"],
  [row |-> Unbranded, reply |-> "specs"],
  [row |-> Car, reply |-> "no_specs"],
  [row |-> CarDescribed, reply |-> "no_vehicle"] >>

\* The databases considered: every run of NumVehicles consecutive profiles.
ProfileOf(offset, id) == Profiles[((offset + id) % Len(Profiles)) + 1]

\* What the matched Advisor type is called, and how many specifications it lists.
MotulDescription == <<"Gol", "1.0">>
SpecsPerVehicle == 1

\* Error texts, as the set of markers ClassifyError looks for.
SearchErrMsg == {"model not found"}
SpecsErrMsg == {"429"}
CtxErrMsg == {}

\* ------------------------------------------------------------------ state
VARIABLES
  aplicacao,         \* APLICACAO table: vehicle id -> row
  advisor,           \* the Advisor stub: vehicle id -> reply
  especificacoes,    \* ESPECIFICACAO_TECNICA: vehicle id -> number of rows
  falhas,            \* SCRAPER_FALHAS: vehicle id -> record, or NoFalha
  checkpointFile,    \* last_processed_id of the checkpoint file, or NoCheckpoint
  run,               \* number of process runs started so far
  config,            \* ScraperConfig of the current run
  ctxDone,           \* the run's context has been cancelled
  cpc,               \* where Run is: idle, feed, wait_cancel, wait_final, returned
  retErr,            \* what Run returned: none, nil, canceled
  vehiclesToProcess, \* vehicles[startIndex:]
  fedIndex,          \* loop index of the feed loop
  lastProcessedID,
  checkpointCounter,
  workQueue,         \* buffered channel contents
  queueClosed,
  wpc,               \* where each worker is: none, recv, tick, search, specs, exited
  wcur,              \* the vehicle a worker holds
  progress,          \* ProgressTracker counters
  runLog,            \* history: run -> its config, the ids it fed, whether it was
                     \* cancelled, what it returned
  outcomeLog,        \* history: vehicle id -> outcomes reached in the current run
  completedEver,     \* history: ids that reached an outcome in some run
  saveLog,           \* history: last_processed_id of each Save of the current run
  rowsAtStart,       \* history: especificacoes when the current run started
  loadedID,          \* history: what the current run read from the checkpoint file
  closeCount         \* history: close(workQueue) calls of the current run

scraperVars ==
  <<aplicacao, advisor, especificacoes, falhas, checkpointFile, run, config,
    ctxDone, cpc, retErr, vehiclesToProcess, fedIndex, lastProcessedID,
    checkpointCounter, workQueue, queueClosed, wpc, wcur, progress,
    runLog, outcomeLog, completedEver, saveLog, rowsAtStart, loadedID,
    closeCount>>

\* The Advisor client's fetchWithRetry, one request at a time (motul.go).
VARIABLES
  fpc,               \* where fetchWithRetry is: idle, wait, request, sleep, done
  attempt,           \* loop variable of the retry loop
  backoff,           \* seconds the next backoff sleep lasts
  httpAttempts,      \* history: httpClient.Do calls made for the request
  lastStatus,        \* status of the last response; StatusNone before the first one,
                     \* TransportError when httpClient.Do failed
  fetchErr,          \* what fetchWithRetry returned: none, nil, or the error
  fetchCtxDone       \* the request's context has been cancelled

fetchVars == <<fpc, attempt, backoff, httpAttempts, lastStatus, fetchErr, fetchCtxDone>>

\* The Rate Limiter and the callers of its Wait (groq.go).
VARIABLES
  ticks,             \* history: ticks of the ticker so far
  tickPending,       \* ticker.C holds a tick the generator has not taken yet
  limiterStopped,    \* Stop was called: ticker stopped, requests channel closed
  generatorPanicked, \* the generator goroutine sent on the closed channel
  lpc,               \* caller -> idle, or waiting (blocked in Wait)
  lctxDone,          \* caller -> its context has been cancelled
  waitCalls,         \* history: Wait calls made so far
  granted            \* history: Wait calls that returned nil

limiterVars == <<ticks, tickPending, limiterStopped, generatorPanicked, lpc, lctxDone,
                 waitCalls, granted>>

\* The Disambiguator client's key pool and the callers of
\* doRequestWithFailover (groq.go).  Time is the current UTC day, and for each
\* minute-limit mark whether it is younger than a minute.
VARIABLES
  day,               \* the current UTC day
  resetsDone,        \* midnights after which midnightResetLoop has done its reset
  currentKey,        \* GroqClient.currentKey
  dailyExhausted,    \* key -> keyStatus.dailyExhausted
  rateLimited,       \* key -> keyStatus.rateLimited
  rateLimitedFresh,  \* key -> rateLimited, and rateLimitedAt under a minute ago
  allExhaustedUntil, \* NoInstant, or the day whose closing midnight is awaited
  gpc,               \* caller -> where it is in doRequestWithFailover
  gkey,              \* caller -> keyIdx of the iteration
  triedKeys,         \* caller -> triedKeys
  sleepUntil,        \* caller -> exhaustedUntil read by waitUntilMidnight
  gctxDone,          \* caller -> its context has been cancelled
  gresult,           \* what the call that returned last returned
  groqCalls,         \* history: calls started so far
  markedRecently,    \* history: key -> marked minute-limited less than 60 s ago
  barrier,           \* history: caller -> the all-exhausted instant its call
                     \* met, or Released once a midnight reset has withdrawn it
  firstFailover      \* history: the keys the first call handed to rotateKey
                     \* with no other call begun, the key it completed with,
                     \* and whether the call after it has sent a request

poolVars == <<day, resetsDone, currentKey, dailyExhausted, rateLimited,
              rateLimitedFresh, allExhaustedUntil, gpc, gkey, triedKeys, sleepUntil,
              gctxDone, gresult, groqCalls, markedRecently, barrier, firstFailover>>

\* One caller of GroqClient.NormalizeVehicle (groq.go); the Rate Limiter and
\* doRequestWithFailover are seen through what they return.
VARIABLES
  npc,        \* where the call is: "idle", "wait", "request", "done"
  nWega,      \* wegaVehicle
  nOptions,   \* motulOptions
  nOut,       \* what the call returned: the string and the error
  nRequests   \* history: calls of doRequestWithFailover made by the call

normVars == <<npc, nWega, nOptions, nOut, nRequests>>

\* The SCRAPER_FALHAS table as ScraperFalhaRepo sees it (part_007, part_012).
VARIABLES
  falhaRows,  \* the rows of the table
  nextID,     \* the sequence behind the ID column
  upserts,    \* history: vehicle -> Upserts executed for it
  lastCall,   \* history: the last repository call, <<name, vehicle>>
  lastArgs,   \* history: tipoErro and mensagemErro of the last Upsert
  returned    \* the rows the last call returned, none if it was no query

repoVars == <<falhaRows, nextID, upserts, lastCall, lastArgs, returned>>

\* The Smart Matcher (smart_matcher.go) behind MotulAdapter.SearchVehicle, its
\* callers, and the Disambiguator stub they ask.
VARIABLES
  brandCache,  \* SmartMatcher.brandCache: pairs <<wegaBrand, motulBrandName>>
  modelCache,  \* SmartMatcher.modelCache: pairs <<cacheKey, motulModelName>>
  stub,        \* the stub's answers so far: pairs <<prompt, answer>>
  mpc,         \* caller -> where it is in FindMatch
  margs,       \* caller -> the number of its input in MatchInputs, 0 for none
  mbrand,      \* caller -> motulBrand
  mmodel,      \* caller -> motulModel
  mwarm,       \* history: caller -> both caches held its keys when it began
  mllmFailed,  \* history: caller -> a Disambiguator call of its match failed
  mOut,        \* caller -> what FindMatch returned and what processVehicle did
  matchCalls,  \* history: calls started so far
  firstWarm,   \* history: input -> what the first match begun warm returned
  matched,     \* history: the inputs a FindMatch has returned a result for
  mrepeat      \* history: caller -> "first"; "repeat" when its input was in
               \* matched as it began; "asked" when it then made a request

matcherVars == <<brandCache, modelCache, stub, mpc, margs, mbrand, mmodel, mwarm,
                 mllmFailed, mOut, matchCalls, firstWarm, matched, mrepeat>>

\* The checkpoint file and the process that saves and loads it
\* (checkpoint.go).
VARIABLES
  ckFile,     \* the file at CheckpointManager.filePath
  ckpc,       \* where Save is inside os.WriteFile: "idle", "open", "write"
  ckNew,      \* the document the Save in progress, or the last one, writes
  ckOld,      \* history: the file as the last Save found it
  ckLoaded,   \* what the last Load returned
  ckCrashed   \* history: the process died inside the last Save

ckptVars == <<ckFile, ckpc, ckNew, ckOld, ckLoaded, ckCrashed>>

\* The catalog cache file and CatalogLoader.LoadOrFetch (catalog_loader.go).
VARIABLES
  caFile,     \* the file at the cache path
  capc,       \* where LoadOrFetch is: "idle", "save", "open", "write"
  caNew,      \* the document saveToFile writes
  caOld,      \* history: the file as the last saveToFile found it
  caCatalog,  \* CatalogLoader.catalog: the catalog loaded, NoCatalog for none
  caFetches,  \* history: catalogs fetched from the API so far
  caCrashed,  \* history: the process died inside the last saveToFile
  caListingFailed \* history: the crawls in which a GetModels or GetVehicleTypes
                  \* call returned an error, by their LoadedAt

cacheVars == <<caFile, capc, caNew, caOld, caCatalog, caFetches, caCrashed,
               caListingFailed>>

\* The component loop of MotulAdapter.GetSpecifications (motul_adapter.go).
VARIABLES
  adProducts,     \* the product names of the component, in response order
  adpc,           \* "idle", "loop" inside the product loop, "done"
  adIndex,        \* the product the loop is at
  adViscosities,  \* the local slice viscosities
  adSpec          \* the OilSpecification emitted for the component

adapterVars == <<adProducts, adpc, adIndex, adViscosities, adSpec>>

vars == <<scraperVars, fetchVars, limiterVars, poolVars, normVars, repoVars,
          matcherVars, ckptVars, cacheVars, adapterVars>>

\* The variables of every component but the scraper.
clientVars == <<fetchVars, limiterVars, poolVars, normVars, repoVars, matcherVars,
                ckptVars, cacheVars, adapterVars>>

\* Bounds of the Rate Limiter model.
MaxTicks == 3
MaxCallers == 2
MaxWaitCalls == 3
Callers == 1..MaxCallers

LimiterIdle ==
  /\ ticks = 0
  /\ tickPending = FALSE
  /\ limiterStopped = FALSE
  /\ generatorPanicked = FALSE
  /\ lpc = [c \in Callers |-> "idle"]
  /\ lctxDone = [c \in Callers |-> FALSE]
  /\ waitCalls = 0
  /\ granted = 0

\* RetryConfig of NewMotulClient; backoffs in seconds.
MaxRetries == 5
InitialBackoff == 1
MaxBackoff == 30
Multiplier == 2

\* Outcomes of httpClient.Do: a transport error, or a response with a status.
StatusNone == -1
TransportError == 0
Statuses == {TransportError, 200, 404, 429, 500, 501, 502, 503, 504}

FetchIdle ==
  /\ fpc = "idle"
  /\ attempt = 0
  /\ backoff = InitialBackoff
  /\ httpAttempts = 0
  /\ lastStatus = StatusNone
  /\ fetchErr = "none"
  /\ fetchCtxDone = FALSE

\* Bounds of the key pool model.
NumKeys == 2
MaxGroqCallers == 2
MaxGroqCalls == 2
MaxDays == 2
Keys == 0..(NumKeys - 1)
GroqCallers == 1..MaxGroqCallers
NoInstant == 0
Released == -1

NoKey == NumKeys
NoFailover == [failed |-> {}, key |-> NoKey, sent |-> FALSE]
PoolIdle ==
  /\ day = 1
  /\ resetsDone = 0
  /\ currentKey = 0
  /\ dailyExhausted = [k \in Keys |-> FALSE]
  /\ rateLimited = [k \in Keys |-> FALSE]
  /\ rateLimitedFresh = [k \in Keys |-> FALSE]
  /\ allExhaustedUntil = NoInstant
  /\ gpc = [c \in GroqCallers |-> "idle"]
  /\ gkey = [c \in GroqCallers |-> 0]
  /\ triedKeys = [c \in GroqCallers |-> 0]
  /\ sleepUntil = [c \in GroqCallers |-> NoInstant]
  /\ gctxDone = [c \in GroqCallers |-> FALSE]
  /\ gresult = "none"
  /\ groqCalls = 0
  /\ markedRecently = [k \in Keys |-> FALSE]
  /\ barrier = [c \in GroqCallers |-> NoInstant]
  /\ firstFailover = NoFailover

NoResult == [result |-> <<>>, err |-> "none"]

NormIdle ==
  /\ npc = "idle"
  /\ nWega = <<>>
  /\ nOptions = <<>>
  /\ nOut = NoResult
  /\ nRequests = 0

\* Bounds of the failure table model.
NumFalhaVehicles == 2
MaxRepoCalls == 4
FalhaVehicles == 1..NumFalhaVehicles

RepoIdle ==
  /\ falhaRows = {}
  /\ nextID = 1
  /\ upserts = [v \in FalhaVehicles |-> 0]
  /\ lastCall = <<"none", 0>>
  /\ lastArgs = <<"none", "none">>
  /\ returned = {}

\* Bounds of the matcher model.
MaxMatchCallers == 2
MaxMatchCalls == 4
MatchCallers == 1..MaxMatchCallers

\* Inputs of FindMatch.  MotulAdapter.SearchVehicle passes the model as the
\* description too.
MatchInputs == <<
  [wegaBrand |-> <<"VW">>, wegaModel |-> <<"Gol", "1.6", "Power">>,
   wegaDescription |-> <<"Gol", "1.6", "Power">>, year |-> 2015],
  [wegaBrand |-> <<"Chevy">>, wegaModel |-> <<"Fox">>,
   wegaDescription |-> <<"Fox">>, year |-> 0],
  [wegaBrand |-> <<"Fiat">>, wegaModel |-> <<"Gol", "1.6", "Power">>,
   wegaDescription |-> <<"Gol", "1.6", "Power">>, year |-> 2015]
>>
InputIds == DOMAIN MatchInputs

NoMatch == [err |-> "none", typeID |-> "", confidence |-> 0, method |-> "",
            counted |-> "", falha |-> FALSE, specs |-> FALSE]

NoWarm == [err |-> "none", typeID |-> "", confidence |-> 0]

MatcherIdle ==
  /\ brandCache = {}
  /\ modelCache = {}
  /\ stub = {}
  /\ mpc = [c \in MatchCallers |-> "idle"]
  /\ margs = [c \in MatchCallers |-> 0]
  /\ mbrand = [c \in MatchCallers |-> <<>>]
  /\ mmodel = [c \in MatchCallers |-> <<>>]
  /\ mwarm = [c \in MatchCallers |-> FALSE]
  /\ mllmFailed = [c \in MatchCallers |-> FALSE]
  /\ mOut = [c \in MatchCallers |-> NoMatch]
  /\ matchCalls = 0
  /\ firstWarm = [i \in InputIds |-> NoWarm]
  /\ matched = {}
  /\ mrepeat = [c \in MatchCallers |-> "first"]

\* A path with no file at it.
NoFile == [exists |-> FALSE, data |-> <<>>]

\* What Load has returned before its first call.
NothingLoaded == [LastProcessedID |-> 0, err |-> "none"]

\* No checkpoint file, nothing saved or loaded yet.
CkptIdle ==
  /\ ckFile = NoFile
  /\ ckpc = "idle"
  /\ ckNew = <<>>
  /\ ckOld = NoFile
  /\ ckLoaded = NothingLoaded
  /\ ckCrashed = FALSE

\* CatalogLoader.catalog before any load: nil.
NoCatalog == [LoadedAt |-> 0, Brands |-> <<>>]

\* No cache file, no catalog loaded.
CacheIdle ==
  /\ caFile = NoFile
  /\ capc = "idle"
  /\ caNew = <<>>
  /\ caOld = NoFile
  /\ caCatalog = NoCatalog
  /\ caFetches = 0
  /\ caCrashed = FALSE
  /\ caListingFailed = {}

\* No specification emitted, no response in hand.
NoSpec == [Viscosidade |-> <<>>]
AdapterIdle ==
  /\ adProducts = <<>>
  /\ adpc = "idle"
  /\ adIndex = 0
  /\ adViscosities = <<>>
  /\ adSpec = NoSpec

ClientsIdle ==
  /\ FetchIdle /\ LimiterIdle /\ PoolIdle /\ NormIdle /\ RepoIdle
  /\ MatcherIdle /\ CkptIdle /\ CacheIdle /\ AdapterIdle

dbVars == <<aplicacao, advisor>>
coordVars == <<vehiclesToProcess, fedIndex, lastProcessedID, checkpointCounter>>
startVars == <<run, config, rowsAtStart, loadedID>>

NoFalha == [TipoErro |-> "none", Tentativas |-> 0, ProximaDelay |-> "null",
            Resolvido |-> FALSE]
NoRun == [config |-> "none", fed |-> <<>>, cancelled |-> FALSE, result |-> "none"]

\* ------------------------------------------------------ Progress Tracker
NewProgressTracker(total) ==
  [TotalVehicles |-> total, Processed |-> 0, Success |-> 0, Failed |-> 0,
   Skipped |-> 0, ExactMatch |-> 0, FuzzyMatch |-> 0, NoMatch |-> 0,
   TotalRequests |-> 0]

\* An increment that is lost.
IncrementProcessedLost(p) == p

\* A skip that is not counted.
IncrementSkippedLost(p) == p

IncrementProcessed(p) == [p EXCEPT !.Processed = @ + 1]
IncrementSuccess(p) == [p EXCEPT !.Success = @ + 1]
IncrementFailed(p) == [p EXCEPT !.Failed = @ + 1]
IncrementSkipped(p) == [p EXCEPT !.Skipped = @ + 1]
IncrementExactMatch(p) == [p EXCEPT !.ExactMatch = @ + 1]
IncrementFuzzyMatch(p) == [p EXCEPT !.FuzzyMatch = @ + 1]
IncrementNoMatch(p) == [p EXCEPT !.NoMatch = @ + 1]
IncrementRequests(p) == [p EXCEPT !.TotalRequests = @ + 1]

\* ---------------------------------------------------- Checkpoint Manager
\* Save keeps last_processed_id (and the tracker's counts, which Run never reads).
Save(lastID) == lastID
Exists(file) == file # NoCheckpoint
Load(file) == file

\* ----------------------------------------------------------- repositories
RECURSIVE SortedIds(_)
SortedIds(ids) ==
  IF ids = {} THEN <<>>
  ELSE LET least == CHOOSE x \in ids : \A y \in ids : x <= y
       IN  <<least>> \o SortedIds(ids \ {least})

\* The same SELECT with the rows coming back in descending order.
GetAllVehiclesDescending(table) ==
  LET ids == SortedIds(DOMAIN table)
  IN  [i \in 1..Len(ids) |-> ids[Len(ids) + 1 - i]]

\* GetAllVehicles: SELECT ... ORDER BY "CodigoAplicacao".
GetAllVehicles(table) == SortedIds(DOMAIN table)

ExistsForVehicle(rows, id) == rows[id] > 0

ClassifyError(errMsg) ==
  CASE errMsg \cap {"rate limit", "429", "too many requests"} # {} -> "rate_limit"
    [] errMsg \cap {"model not found", "LLM indicated no match"} # {} -> "modelo_nao_encontrado"
    [] errMsg \cap {"Motul API"} # {} -> "api_motul"
    [] errMsg \cap {"Groq API"} # {} -> "api_groq"
    [] errMsg \cap {"connection", "timeout", "network", "dial"} # {} -> "rede"
    [] errMsg \cap {"parse", "invalid"} # {} -> "parse"
    [] OTHER -> "desconhecido"

\* The retry delay without the switch: thirty minutes whatever the kind.
ProximaTentativaDefaultOnly(tipoErro) == "30"

\* Minutes from now to the next automatic retry; "null" means never.
ProximaTentativa(tipoErro) ==
  CASE tipoErro = "rate_limit" -> "1"
    [] tipoErro = "rede" -> "5"
    [] tipoErro = "modelo_nao_encontrado" -> "null"
    [] OTHER -> "30"

\* Upsert that leaves Resolvido as it found it.
UpsertKeepsResolvido(f, tipoErro) ==
  [TipoErro |-> tipoErro, Tentativas |-> f.Tentativas + 1,
   ProximaDelay |-> ProximaTentativa(tipoErro), Resolvido |-> f.Resolvido]

Upsert(f, tipoErro) ==
  [TipoErro |-> tipoErro, Tentativas |-> f.Tentativas + 1,
   ProximaDelay |-> ProximaTentativa(tipoErro), Resolvido |-> FALSE]

MarkResolved(f) == IF f = NoFalha THEN f ELSE [f EXCEPT !.Resolvido = TRUE]

\* ------------------------------------------------------------- Run: start
\* Index in vehicles (0-based) of the first vehicle to feed.
CheckpointStartIndex(vehicles, file) ==
  IF Exists(file) /\ \E i \in DOMAIN vehicles : vehicles[i] = Load(file)
  THEN CHOOSE i \in DOMAIN vehicles : vehicles[i] = Load(file)
  ELSE 0

StartIndex(vehicles, file, resumeFromID) ==
  IF resumeFromID > 0 /\ \E i \in DOMAIN vehicles : vehicles[i] >= resumeFromID
  THEN (CHOOSE i \in DOMAIN vehicles :
          /\ vehicles[i] >= resumeFromID
          /\ \A j \in 1..(i - 1) : vehicles[j] < resumeFromID) - 1
  ELSE CheckpointStartIndex(vehicles, file)

\* The configurations a run is started with: the plain one, and those that differ
\* from it in one setting.
ResumeFromIDs == {0, 2, NumVehicles + 1}
DefaultConfig == [Workers |-> 1, ResumeFromID |-> 0, DryRun |-> FALSE]
Configs ==
  {[DefaultConfig EXCEPT !.Workers = n] : n \in WorkerIds}
    \cup {[DefaultConfig EXCEPT !.ResumeFromID = r] : r \in ResumeFromIDs}
    \cup {[DefaultConfig EXCEPT !.DryRun = d] : d \in BOOLEAN}

QueueCapacity == config.Workers * 2
ActiveWorkers == 1..config.Workers
Range(seq) == {seq[i] : i \in DOMAIN seq}

\* The scraper before its first Run, over the database chosen by offset.
ScraperStart(offset) ==
  /\ aplicacao = [id \in VehicleIds |-> ProfileOf(offset, id).row]
  /\ advisor = [id \in VehicleIds |-> ProfileOf(offset, id).reply]
  /\ especificacoes = [id \in VehicleIds |-> 0]
  /\ falhas = [id \in VehicleIds |-> NoFalha]
  /\ checkpointFile = NoCheckpoint
  /\ run = 0
  /\ config = DefaultConfig
  /\ ctxDone = FALSE
  /\ cpc = "idle"
  /\ retErr = "none"
  /\ vehiclesToProcess = <<>>
  /\ fedIndex = 0
  /\ lastProcessedID = 0
  /\ checkpointCounter = 0
  /\ workQueue = <<>>
  /\ queueClosed = FALSE
  /\ wpc = [w \in WorkerIds |-> "none"]
  /\ wcur = [w \in WorkerIds |-> 0]
  /\ progress = NewProgressTracker(0)
  /\ runLog = [r \in 1..MaxRuns |-> NoRun]
  /\ outcomeLog = [id \in VehicleIds |-> <<>>]
  /\ completedEver = {}
  /\ saveLog = <<>>
  /\ rowsAtStart = [id \in VehicleIds |-> 0]
  /\ loadedID = NoCheckpoint
  /\ closeCount = 0

ScraperIdle == ScraperStart(1)

Init ==
  /\ \E offset \in 1..Len(Profiles) : ScraperStart(offset)
  /\ ClientsIdle

\* Run, from its start to the spawning of the workers (service.go 128-214).
StartRun(cfg) ==
  /\ cpc \in {"idle", "returned"}
  /\ run < MaxRuns
  /\ LET vehicles == GetAllVehicles(aplicacao)
         startIndex == StartIndex(vehicles, checkpointFile, cfg.ResumeFromID)
         rest == SubSeq(vehicles, startIndex + 1, Len(vehicles))
     IN  /\ vehiclesToProcess' = rest
         /\ progress' = NewProgressTracker(Len(rest))
  /\ run' = run + 1
  /\ config' = cfg
  /\ ctxDone' = FALSE
  /\ cpc' = "feed"
  /\ retErr' = "none"
  /\ fedIndex' = 0
  /\ lastProcessedID' = 0
  /\ checkpointCounter' = 0
  /\ workQueue' = <<>>
  /\ queueClosed' = FALSE
  /\ wpc' = [w \in WorkerIds |-> IF w <= cfg.Workers THEN "recv" ELSE "none"]
  /\ wcur' = [w \in WorkerIds |-> 0]
  /\ runLog' = [runLog EXCEPT ![run + 1] = [config |-> cfg, fed |-> <<>>,
                                             cancelled |-> FALSE, result |-> "none"]]
  /\ outcomeLog' = [id \in VehicleIds |-> <<>>]
  /\ saveLog' = <<>>
  /\ rowsAtStart' = especificacoes
  /\ loadedID' = checkpointFile
  /\ closeCount' = 0
  /\ UNCHANGED clientVars
  /\ UNCHANGED <<dbVars, especificacoes, falhas, checkpointFile, completedEver>>

\* The signal handler of main cancels the run's context.
Cancel ==
  /\ cpc \in {"feed", "wait_final"}
  /\ ~ctxDone
  /\ ctxDone' = TRUE
  /\ runLog' = [runLog EXCEPT ![run].cancelled = TRUE]
  /\ UNCHANGED clientVars
  /\ UNCHANGED <<dbVars, especificacoes, falhas, checkpointFile, startVars, cpc,
                 retErr, coordVars, workQueue, queueClosed, wpc, wcur, progress,
                 outcomeLog, completedEver, saveLog, closeCount>>

\* ------------------------------------------------------- Run: feed loop
\* select, case workQueue <- vehicle: taken whenever the channel has room, also
\* when ctx.Done() is ready as well (select picks among the ready cases at random).
Feed ==
  /\ cpc = "feed"
  /\ fedIndex < Len(vehiclesToProcess)
  /\ Len(workQueue) < QueueCapacity
  /\ LET vehicle == vehiclesToProcess[fedIndex + 1]
         counter == checkpointCounter + 1
     IN  /\ workQueue' = Append(workQueue, vehicle)
         /\ lastProcessedID' = vehicle
         /\ checkpointCounter' = counter
         /\ runLog' = [runLog EXCEPT ![run].fed = Append(@, vehicle)]
         /\ IF counter % CheckpointEvery = 0
            THEN /\ checkpointFile' = Save(vehicle)
                 /\ saveLog' = Append(saveLog, Save(vehicle))
            ELSE UNCHANGED <<checkpointFile, saveLog>>
  /\ fedIndex' = fedIndex + 1
  /\ UNCHANGED clientVars
  /\ UNCHANGED <<dbVars, especificacoes, falhas, startVars, ctxDone, cpc, retErr,
                 vehiclesToProcess, queueClosed, wpc, wcur, progress, outcomeLog,
                 completedEver, closeCount>>

\* select, case <-ctx.Done(): close(workQueue), then wg.Wait().
FeedCancelled ==
  /\ cpc = "feed"
  /\ fedIndex < Len(vehiclesToProcess)
  /\ ctxDone
  /\ queueClosed' = TRUE
  /\ closeCount' = closeCount + 1
  /\ cpc' = "wait_cancel"
  /\ UNCHANGED clientVars
  /\ UNCHANGED <<dbVars, especificacoes, falhas, checkpointFile, startVars,
                 ctxDone, retErr, coordVars, workQueue, wpc, wcur, progress,
                 runLog, outcomeLog, completedEver, saveLog>>

\* The loop is over: close(workQueue), then wg.Wait().
FeedDone ==
  /\ cpc = "feed"
  /\ fedIndex = Len(vehiclesToProcess)
  /\ queueClosed' = TRUE
  /\ closeCount' = closeCount + 1
  /\ cpc' = "wait_final"
  /\ UNCHANGED clientVars
  /\ UNCHANGED <<dbVars, especificacoes, falhas, checkpointFile, startVars,
                 ctxDone, retErr, coordVars, workQueue, wpc, wcur, progress,
                 runLog, outcomeLog, completedEver, saveLog>>

WorkersGone == \A w \in ActiveWorkers : wpc[w] = "exited"

\* wg.Wait() returns on the cancellation path: return ctx.Err().
ReturnCancelled ==
  /\ cpc = "wait_cancel"
  /\ WorkersGone
  /\ cpc' = "returned"
  /\ retErr' = "canceled"
  /\ runLog' = [runLog EXCEPT ![run].result = "canceled"]
  /\ UNCHANGED clientVars
  /\ UNCHANGED <<dbVars, especificacoes, falhas, checkpointFile, startVars,
                 ctxDone, coordVars, workQueue, queueClosed, wpc, wcur, progress,
                 outcomeLog, completedEver, saveLog, closeCount>>

\* wg.Wait() returns after the drain: final checkpoint, statistics, return nil.
ReturnFinal ==
  /\ cpc = "wait_final"
  /\ WorkersGone
  /\ checkpointFile' = Save(lastProcessedID)
  /\ saveLog' = Append(saveLog, Save(lastProcessedID))
  /\ cpc' = "returned"
  /\ retErr' = "nil"
  /\ runLog' = [runLog EXCEPT ![run].result = "nil"]
  /\ UNCHANGED clientVars
  /\ UNCHANGED <<dbVars, especificacoes, falhas, startVars, ctxDone, coordVars,
                 workQueue, queueClosed, wpc, wcur, progress, outcomeLog,
                 completedEver, closeCount>>

\* ---------------------------------------------------------------- worker
\* saveFailure: classify, then Upsert; a failed Upsert is only logged.
saveFailure(id, errMsg, stored) ==
  IF stored THEN [falhas EXCEPT ![id] = Upsert(@, ClassifyError(errMsg))] ELSE falhas

\* markFailureResolved: a failed MarkResolved is only logged.
markFailureResolved(id, stored) ==
  IF stored THEN [falhas EXCEPT ![id] = MarkResolved(@)] ELSE falhas

\* The select after processVehicle: leave on cancellation, else next iteration.
AfterVehicle(done) == IF done THEN "exited" ELSE "recv"

\* A worker that gives up after a failed vehicle instead of going on.
FinishOrAbort(w, outcome) ==
  /\ outcomeLog' = [outcomeLog EXCEPT ![wcur[w]] = Append(@, outcome)]
  /\ completedEver' = completedEver \cup {wcur[w]}
  /\ wpc' = [wpc EXCEPT ![w] = IF outcome = "failed" THEN "exited"
                                ELSE AfterVehicle(ctxDone)]
  /\ wcur' = [wcur EXCEPT ![w] = 0]

\* processVehicle returned with an outcome; the worker then checks ctx.Done().
Finish(w, outcome) ==
  /\ outcomeLog' = [outcomeLog EXCEPT ![wcur[w]] = Append(@, outcome)]
  /\ completedEver' = completedEver \cup {wcur[w]}
  /\ wpc' = [wpc EXCEPT ![w] = AfterVehicle(ctxDone)]
  /\ wcur' = [wcur EXCEPT ![w] = 0]

\* for vehicle := range queue: a vehicle is received.
Receive(w) ==
  /\ wpc[w] = "recv"
  /\ workQueue # <<>>
  /\ wcur' = [wcur EXCEPT ![w] = Head(workQueue)]
  /\ workQueue' = Tail(workQueue)
  /\ wpc' = [wpc EXCEPT ![w] = "tick"]
  /\ UNCHANGED clientVars
  /\ UNCHANGED <<dbVars, especificacoes, falhas, checkpointFile, startVars,
                 ctxDone, cpc, retErr, coordVars, queueClosed, progress, runLog,
                 outcomeLog, completedEver, saveLog, closeCount>>

\* for vehicle := range queue: the channel is closed and drained.
WorkerFinished(w) ==
  /\ wpc[w] = "recv"
  /\ workQueue = <<>>
  /\ queueClosed
  /\ wpc' = [wpc EXCEPT ![w] = "exited"]
  /\ UNCHANGED clientVars
  /\ UNCHANGED <<dbVars, especificacoes, falhas, checkpointFile, startVars,
                 ctxDone, cpc, retErr, coordVars, workQueue, queueClosed, wcur,
                 progress, runLog, outcomeLog, completedEver, saveLog, closeCount>>

\* <-rateLimiter.C fires, then processVehicle up to the matcher call (service.go
\* 274-444).  existsErr: the existence query fails.
TickerFires(w, existsErr) ==
  /\ wpc[w] = "tick"
  /\ LET id == wcur[w]
         vehicle == aplicacao[id]
         parsed == parseVehicleDescription(vehicle)
         p1 == IncrementProcessed(progress)
         commercial == ~parsed.err /\ isCommercialVehicle(parsed.brand,
                           parsed.modelName, vehicle.DescricaoAplicacao)
         exists == ~existsErr /\ ExistsForVehicle(especificacoes, id)
     IN  IF commercial \/ exists \/ parsed.err
         THEN /\ progress' = IncrementSkipped(p1)
              /\ Finish(w, "skipped")
         ELSE IF config.DryRun
         THEN /\ progress' = IncrementSuccess(p1)
              /\ Finish(w, "success")
         ELSE /\ progress' = IncrementRequests(p1)
              /\ wpc' = [wpc EXCEPT ![w] = "search"]
              /\ UNCHANGED <<outcomeLog, completedEver, wcur>>
  /\ UNCHANGED clientVars
  /\ UNCHANGED <<dbVars, especificacoes, falhas, checkpointFile, startVars,
                 ctxDone, cpc, retErr, coordVars, workQueue, queueClosed, runLog,
                 saveLog, closeCount>>

\* SearchVehicle returns (service.go 444-482).  ctxErr: the call gave up on the
\* cancelled context; stored: the failure Upsert went through.
SearchReturns(w, ctxErr, stored) ==
  /\ wpc[w] = "search"
  /\ ctxErr => ctxDone
  /\ LET id == wcur[w]
         reply == advisor[id]
     IN  IF ctxErr \/ reply = "search_err"
         THEN /\ progress' = IncrementFailed(progress)
              /\ falhas' = saveFailure(id, IF ctxErr THEN CtxErrMsg ELSE SearchErrMsg,
                                       stored)
              /\ Finish(w, "failed")
         ELSE IF reply = "no_vehicle"
         THEN /\ stored
              /\ progress' = IncrementNoMatch(progress)
              /\ falhas' = falhas
              /\ Finish(w, "no_match")
         ELSE /\ stored
              /\ progress' = IF isExactMatch(aplicacao[id], MotulDescription)
                             THEN IncrementExactMatch(progress)
                             ELSE IncrementFuzzyMatch(progress)
              /\ wpc' = [wpc EXCEPT ![w] = "specs"]
              /\ UNCHANGED <<falhas, outcomeLog, completedEver, wcur>>
  /\ UNCHANGED clientVars
  /\ UNCHANGED <<dbVars, especificacoes, checkpointFile, startVars, ctxDone, cpc,
                 retErr, coordVars, workQueue, queueClosed, runLog, saveLog,
                 closeCount>>

\* GetSpecifications returns and the specifications are saved (service.go
\* 485-551).  saved: how many Inserts went through; stored: the failure Upsert or
\* MarkResolved went through.
SpecsReturn(w, ctxErr, saved, stored) ==
  /\ wpc[w] = "specs"
  /\ ctxErr => ctxDone
  /\ LET id == wcur[w]
         reply == advisor[id]
     IN  IF ctxErr \/ reply = "specs_err"
         THEN /\ saved = 0
              /\ progress' = IncrementFailed(progress)
              /\ falhas' = saveFailure(id, IF ctxErr THEN CtxErrMsg ELSE SpecsErrMsg,
                                       stored)
              /\ UNCHANGED especificacoes
              /\ Finish(w, "failed")
         ELSE IF reply = "no_specs"
         THEN /\ saved = 0
              /\ stored
              /\ progress' = IncrementNoMatch(progress)
              /\ UNCHANGED <<especificacoes, falhas>>
              /\ Finish(w, "no_match")
         ELSE /\ especificacoes' = [especificacoes EXCEPT ![id] = @ + saved]
              /\ falhas' = IF saved > 0 THEN markFailureResolved(id, stored) ELSE falhas
              /\ saved = 0 => stored
              /\ progress' = IncrementSuccess(progress)
              /\ Finish(w, "success")
  /\ UNCHANGED clientVars
  /\ UNCHANGED <<dbVars, checkpointFile, startVars, ctxDone, cpc, retErr,
                 coordVars, workQueue, queueClosed, runLog, saveLog, closeCount>>

Worker(w) ==
  \/ Receive(w)
  \/ WorkerFinished(w)
  \/ \E existsErr \in BOOLEAN : TickerFires(w, existsErr)
  \/ \E ctxErr, stored \in BOOLEAN : SearchReturns(w, ctxErr, stored)
  \/ \E ctxErr, stored \in BOOLEAN : \E saved \in 0..SpecsPerVehicle :
       SpecsReturn(w, ctxErr, saved, stored)

Next ==
  \/ \E cfg \in Configs : StartRun(cfg)
  \/ Cancel
  \/ Feed
  \/ FeedCancelled
  \/ FeedDone
  \/ ReturnCancelled
  \/ ReturnFinal
  \/ \E w \in WorkerIds : Worker(w)

Spec == Init /\ [][Next]_vars

\* ------------------------------------------------------------- properties
FedBy(r) == Range(runLog[r].fed)
Fed == FedBy(run)
Remaining == Range(vehiclesToProcess)
PlainRun(r) == runLog[r].config.ResumeFromID = 0 /\ ~runLog[r].config.DryRun
NoResumeSoFar == \A r \in 1..run : runLog[r].config.ResumeFromID = 0
ReturnedUncancelled == cpc = "returned" /\ ~ctxDone

\* A row with a commercial brand, or with a commercial pattern in its base model
\* name or in its description.
CommercialRow(row) ==
  \/ \E cb \in commercialBrands : StrContains(ToLower(BrandOf(row)), cb)
  \/ \E pattern \in commercialVehiclePatterns :
       \/ StrContains(ToLower(BaseModelOf(row)), pattern)
       \/ StrContains(ToLower(row.DescricaoAplicacao), pattern)

\* C1: when the previous run was cancelled and this run starts from the
\* checkpoint file it left behind, this run feeds no vehicle the previous run had
\* already sent to the work channel.
C1_NoVehicleFedAgain ==
  (/\ run >= 2
   /\ runLog[run - 1].result = "canceled"
   /\ loadedID # NoCheckpoint
   /\ config.ResumeFromID = 0)
    => FedBy(run - 1) \cap Fed = {}

\* C2: after a sequence of runs restarted from the persisted checkpoint has come
\* to a regular end with an uncancelled run, every vehicle whose id is at or below the persisted
\* checkpoint id has reached an outcome (success, failed, skipped, no-match) in
\* some run.
C2_CheckpointCoversOnlyProcessed ==
  (/\ run >= 2
   /\ ReturnedUncancelled
   /\ retErr = "nil"
   /\ NoResumeSoFar)
    => \A id \in VehicleIds : id <= checkpointFile => id \in completedEver

\* C3: a second complete, uncancelled run over the same vehicles and the same
\* Advisor stub inserts no new specification rows, and counts every vehicle that
\* already has a persisted specification as skipped.
C3_SecondRunSkipsPersisted ==
  (/\ run >= 2
   /\ ReturnedUncancelled
   /\ retErr = "nil"
   /\ runLog[run - 1].result = "nil"
   /\ ~runLog[run - 1].cancelled
   /\ PlainRun(run - 1)
   /\ PlainRun(run))
    => /\ especificacoes = rowsAtStart
       /\ \A id \in VehicleIds : rowsAtStart[id] > 0 => outcomeLog[id] = <<"skipped">>

FailedCalls ==
  {id \in VehicleIds : outcomeLog[id] # <<>> /\ outcomeLog[id][1] = "failed"}
CallFails(id) ==
  /\ ~config.DryRun
  /\ ~parseVehicleDescription(aplicacao[id]).err
  /\ ~CommercialRow(aplicacao[id])
  /\ rowsAtStart[id] = 0
  /\ advisor[id] \in {"search_err", "specs_err"}

\* C5: when an uncancelled Run has returned it returned without error, every
\* vehicle whose matcher or specification call fails is counted failed, and every
\* vehicle fed, those fed after a failing one included, has been processed.
C5_FailureDoesNotAbort ==
  ReturnedUncancelled =>
    /\ retErr = "nil"
    /\ \A id \in Fed : outcomeLog[id] # <<>>
    /\ \A id \in Fed : CallFails(id) => outcomeLog[id] = <<"failed">>
    /\ progress.Failed = Cardinality(FailedCalls)

C5_Witness ==
  /\ ReturnedUncancelled
  /\ \E i, j \in DOMAIN runLog[run].fed :
       /\ i < j
       /\ CallFails(runLog[run].fed[i])
       /\ outcomeLog[runLog[run].fed[i]] = <<"failed">>
       /\ outcomeLog[runLog[run].fed[j]] = <<"success">>

\* C6: the work channel is closed at most once in a run, and once cancellation
\* is signalled while the coordinator is feeding, the coordinator feeds no further
\* vehicle.
C6_NoFeedAfterCancel ==
  /\ [](closeCount <= 1)
  /\ [][(ctxDone /\ cpc = "feed") => runLog'[run].fed = runLog[run].fed]_vars

\* C7: once cancellation is signalled, no worker dequeues another vehicle from
\* the work channel.
C7_NoDequeueAfterCancel ==
  [][\A w \in WorkerIds : ctxDone => ~(wpc[w] = "recv" /\ wpc'[w] = "tick")]_vars

\* C8: a worker that is waiting for its ticker when cancellation is signalled is
\* released by the cancellation: it leaves the wait without processing the
\* vehicle it holds.
C8_TickerWaitReleasedByCancel ==
  [][\A w \in WorkerIds :
       (ctxDone /\ wpc[w] = "tick" /\ wpc'[w] # "tick")
         => progress'.Processed = progress.Processed]_vars

\* C9: within one run, the last_processed_id written by successive checkpoint
\* saves, periodic and final, never decreases.
C9_CheckpointMonotone ==
  \A i, j \in DOMAIN saveLog : i <= j => saveLog[i] <= saveLog[j]

C9_Witness ==
  /\ cpc = "returned"
  /\ retErr = "nil"
  /\ Len(saveLog) >= 2
  /\ saveLog[1] < saveLog[Len(saveLog)]

min(a, b) == IF a < b THEN a ELSE b

\* fetchWithRetry is called for one URL.
FetchStart ==
  /\ fpc = "idle"
  /\ fpc' = "wait"
  /\ attempt' = 0
  /\ backoff' = InitialBackoff
  /\ UNCHANGED <<httpAttempts, lastStatus, fetchErr, fetchCtxDone>>
  /\ UNCHANGED <<scraperVars, limiterVars, poolVars, normVars, repoVars,
                 matcherVars, ckptVars, cacheVars, adapterVars>>

\* The caller's context is cancelled while the request is in progress.
FetchCancel ==
  /\ fpc \in {"wait", "request", "sleep"}
  /\ ~fetchCtxDone
  /\ fetchCtxDone' = TRUE
  /\ UNCHANGED <<fpc, attempt, backoff, httpAttempts, lastStatus, fetchErr>>
  /\ UNCHANGED <<scraperVars, limiterVars, poolVars, normVars, repoVars,
                 matcherVars, ckptVars, cacheVars, adapterVars>>

\* rateLimiter.Wait(ctx) returns nil: the request is built and sent.
WaitGranted ==
  /\ fpc = "wait"
  /\ fpc' = "request"
  /\ httpAttempts' = httpAttempts + 1
  /\ UNCHANGED <<attempt, backoff, lastStatus, fetchErr, fetchCtxDone>>
  /\ UNCHANGED <<scraperVars, limiterVars, poolVars, normVars, repoVars,
                 matcherVars, ckptVars, cacheVars, adapterVars>>

\* rateLimiter.Wait(ctx) returns the context's error: return nil, err.
WaitCancelled ==
  /\ fpc = "wait"
  /\ fetchCtxDone
  /\ fpc' = "done"
  /\ fetchErr' = "canceled"
  /\ UNCHANGED <<attempt, backoff, httpAttempts, lastStatus, fetchCtxDone>>
  /\ UNCHANGED <<scraperVars, limiterVars, poolVars, normVars, repoVars,
                 matcherVars, ckptVars, cacheVars, adapterVars>>

\* The status codes after which the loop sleeps and tries again.
Retryable(status) == status = 429 \/ status >= 500

\* httpClient.Do returns: a transport error, or a response whose body is read.
HttpReturns(status) ==
  /\ fpc = "request"
  /\ lastStatus' = status
  /\ IF status = TransportError
     THEN IF attempt < MaxRetries
          THEN fpc' = "sleep" /\ fetchErr' = fetchErr
          ELSE fpc' = "done" /\ fetchErr' = "request failed after attempts"
     ELSE IF status = 200
     THEN fpc' = "done" /\ fetchErr' = "nil"
     ELSE IF Retryable(status) /\ attempt < MaxRetries
     THEN fpc' = "sleep" /\ fetchErr' = fetchErr
     ELSE fpc' = "done" /\ fetchErr' = "request failed with status"
  /\ UNCHANGED <<attempt, backoff, httpAttempts, fetchCtxDone>>
  /\ UNCHANGED <<scraperVars, limiterVars, poolVars, normVars, repoVars,
                 matcherVars, ckptVars, cacheVars, adapterVars>>

\* time.Sleep(backoff) is over: the backoff grows and the loop goes on.
SleepEnds ==
  /\ fpc = "sleep"
  /\ backoff' = min(backoff * Multiplier, MaxBackoff)
  /\ attempt' = attempt + 1
  /\ fpc' = "wait"
  /\ UNCHANGED <<httpAttempts, lastStatus, fetchErr, fetchCtxDone>>
  /\ UNCHANGED <<scraperVars, limiterVars, poolVars, normVars, repoVars,
                 matcherVars, ckptVars, cacheVars, adapterVars>>

FetchInit == ScraperIdle /\ ClientsIdle

FetchNext ==
  \/ FetchStart
  \/ FetchCancel
  \/ WaitGranted
  \/ WaitCancelled
  \/ \E status \in Statuses : HttpReturns(status)
  \/ SleepEnds

FetchSpec == FetchInit /\ [][FetchNext]_vars

\* C11: for one Advisor request fetchWithRetry makes at most 5 HTTP attempts
\* in total.
C11_AtMostFiveAttempts == httpAttempts <= 5

\* C12: fetchWithRetry sleeps and tries again only after a transport error or a
\* response with status 429, 500, 502 or 503; any other status other than 200
\* ends the request with an error at once.
C12_RetriesOnlyListedStatuses ==
  [][(fpc = "request" /\ fpc' = "sleep")
       => lastStatus' \in {TransportError, 429, 500, 502, 503}]_vars

\* ------------------------------------------------------------ Rate Limiter
\* The ticker ticks; ticker.C buffers one tick and drops a tick it has no room for.
Tick ==
  /\ ~limiterStopped
  /\ ticks < MaxTicks
  /\ ticks' = ticks + 1
  /\ tickPending' = TRUE
  /\ UNCHANGED <<limiterStopped, generatorPanicked, lpc, lctxDone, waitCalls, granted>>
  /\ UNCHANGED <<scraperVars, fetchVars, poolVars, normVars, repoVars,
                 matcherVars, ckptVars, cacheVars, adapterVars>>

\* The generator takes a tick and sends on requests; a caller blocked in Wait
\* receives it and its Wait returns nil.
HandOver(c) ==
  /\ tickPending
  /\ ~limiterStopped
  /\ lpc[c] = "waiting"
  /\ tickPending' = FALSE
  /\ lpc' = [lpc EXCEPT ![c] = "idle"]
  /\ granted' = granted + 1
  /\ UNCHANGED <<ticks, limiterStopped, generatorPanicked, lctxDone, waitCalls>>
  /\ UNCHANGED <<scraperVars, fetchVars, poolVars, normVars, repoVars,
                 matcherVars, ckptVars, cacheVars, adapterVars>>

\* The generator takes a tick and nobody is blocked in Wait: the default case.
Discard ==
  /\ tickPending
  /\ ~limiterStopped
  /\ \A c \in Callers : lpc[c] # "waiting"
  /\ tickPending' = FALSE
  /\ UNCHANGED <<ticks, limiterStopped, generatorPanicked, lpc, lctxDone, waitCalls,
                 granted>>
  /\ UNCHANGED <<scraperVars, fetchVars, poolVars, normVars, repoVars,
                 matcherVars, ckptVars, cacheVars, adapterVars>>

\* The generator takes a tick left in ticker.C after Stop: a send on the closed
\* requests channel, which panics.
SendOnClosed ==
  /\ tickPending
  /\ limiterStopped
  /\ tickPending' = FALSE
  /\ generatorPanicked' = TRUE
  /\ UNCHANGED <<ticks, limiterStopped, lpc, lctxDone, waitCalls, granted>>
  /\ UNCHANGED <<scraperVars, fetchVars, poolVars, normVars, repoVars,
                 matcherVars, ckptVars, cacheVars, adapterVars>>

\* A caller enters Wait and blocks in its select.
WaitCall(c) ==
  /\ lpc[c] = "idle"
  /\ ~generatorPanicked
  /\ waitCalls < MaxWaitCalls
  /\ lpc' = [lpc EXCEPT ![c] = "waiting"]
  /\ waitCalls' = waitCalls + 1
  /\ UNCHANGED <<ticks, tickPending, limiterStopped, generatorPanicked, lctxDone,
                 granted>>
  /\ UNCHANGED <<scraperVars, fetchVars, poolVars, normVars, repoVars,
                 matcherVars, ckptVars, cacheVars, adapterVars>>

\* case <-rl.requests on the closed channel: the receive succeeds, Wait returns nil.
ReceiveOnClosed(c) ==
  /\ lpc[c] = "waiting"
  /\ limiterStopped
  /\ lpc' = [lpc EXCEPT ![c] = "idle"]
  /\ granted' = granted + 1
  /\ UNCHANGED <<ticks, tickPending, limiterStopped, generatorPanicked, lctxDone,
                 waitCalls>>
  /\ UNCHANGED <<scraperVars, fetchVars, poolVars, normVars, repoVars,
                 matcherVars, ckptVars, cacheVars, adapterVars>>

\* case <-ctx.Done(): Wait returns ctx.Err().
WaitContextDone(c) ==
  /\ lpc[c] = "waiting"
  /\ lctxDone[c]
  /\ lpc' = [lpc EXCEPT ![c] = "idle"]
  /\ UNCHANGED <<ticks, tickPending, limiterStopped, generatorPanicked, lctxDone,
                 waitCalls, granted>>
  /\ UNCHANGED <<scraperVars, fetchVars, poolVars, normVars, repoVars,
                 matcherVars, ckptVars, cacheVars, adapterVars>>

\* A caller's context is cancelled.
CallerCancel(c) ==
  /\ ~lctxDone[c]
  /\ lctxDone' = [lctxDone EXCEPT ![c] = TRUE]
  /\ UNCHANGED <<ticks, tickPending, limiterStopped, generatorPanicked, lpc,
                 waitCalls, granted>>
  /\ UNCHANGED <<scraperVars, fetchVars, poolVars, normVars, repoVars,
                 matcherVars, ckptVars, cacheVars, adapterVars>>

\* Stop: ticker.Stop(), close(rl.requests).
Stop ==
  /\ ~limiterStopped
  /\ limiterStopped' = TRUE
  /\ UNCHANGED <<ticks, tickPending, generatorPanicked, lpc, lctxDone, waitCalls,
                 granted>>
  /\ UNCHANGED <<scraperVars, fetchVars, poolVars, normVars, repoVars,
                 matcherVars, ckptVars, cacheVars, adapterVars>>

LimiterInit == ScraperIdle /\ ClientsIdle

LimiterNext ==
  \/ Tick
  \/ Discard
  \/ SendOnClosed
  \/ Stop
  \/ \E c \in Callers :
       \/ HandOver(c)
       \/ WaitCall(c)
       \/ ReceiveOnClosed(c)
       \/ WaitContextDone(c)
       \/ CallerCancel(c)

LimiterSpec == LimiterInit /\ [][LimiterNext]_vars

\* C13: tokens never accumulate: the number of Wait calls that returned nil
\* never exceeds the number of ticks elapsed, and a step grants at most one.
C13_GrantsNeverExceedTicks ==
  /\ [](granted <= ticks)
  /\ [][granted' <= granted + 1]_vars

\* C14: after Stop has been called, no Wait call returns nil.
C14_NoGrantAfterStop ==
  [][limiterStopped => granted' = granted]_vars

\* ---------------------------------------------------------------------------
\* Disambiguator key pool (internal/client/groq.go)
\* ---------------------------------------------------------------------------

\* What the LLM service can answer to one request: a completion, a 429 for the
\* minute limit, a 429 for the daily limit, a 200 whose error message names the
\* daily quota, or any other failure.
Replies == {"ok", "minute", "daily", "dailyBody", "error"}

AllDailyExhausted(daily) == \A k \in Keys : daily[k]

\* rotateKey's scan: the keys from failedIdx+1 round to failedIdx itself.
ScanOrder(failedIdx) == [i \in 1..NumKeys |-> (failedIdx + i) % NumKeys]

\* rotateKey publishing the next midnight whenever it finds no key, without
\* looking whether every key is daily-exhausted.
rotateKeyAlwaysPublishes(failedIdx, isDailyLimit) ==
  LET daily == IF isDailyLimit
               THEN [dailyExhausted EXCEPT ![failedIdx] = TRUE]
               ELSE dailyExhausted
      limited == IF isDailyLimit
                 THEN rateLimited
                 ELSE [rateLimited EXCEPT ![failedIdx] = TRUE]
      fresh == IF isDailyLimit
               THEN rateLimitedFresh
               ELSE [rateLimitedFresh EXCEPT ![failedIdx] = TRUE]
      order == ScanOrder(failedIdx)
      usable(k) == ~daily[k] /\ (~limited[k] \/ ~fresh[k])
      hits == {i \in 1..NumKeys : usable(order[i])}
  IN  IF hits # {}
      THEN LET first == CHOOSE i \in hits : \A j \in hits : i <= j
           IN  [found |-> TRUE,
                daily |-> daily,
                limited |-> [limited EXCEPT ![order[first]] = FALSE],
                fresh |-> fresh,
                current |-> order[first],
                until |-> allExhaustedUntil]
      ELSE [found |-> FALSE,
            daily |-> daily,
            limited |-> limited,
            fresh |-> fresh,
            current |-> currentKey,
            until |-> day]

\* rotateKey(failedIdx, isDailyLimit), as the record of what it leaves behind
\* and what it returns.
rotateKey(failedIdx, isDailyLimit) ==
  LET daily == IF isDailyLimit
               THEN [dailyExhausted EXCEPT ![failedIdx] = TRUE]
               ELSE dailyExhausted
      limited == IF isDailyLimit
                 THEN rateLimited
                 ELSE [rateLimited EXCEPT ![failedIdx] = TRUE]
      fresh == IF isDailyLimit
               THEN rateLimitedFresh
               ELSE [rateLimitedFresh EXCEPT ![failedIdx] = TRUE]
      order == ScanOrder(failedIdx)
      usable(k) == ~daily[k] /\ (~limited[k] \/ ~fresh[k])
      hits == {i \in 1..NumKeys : usable(order[i])}
  IN  IF hits # {}
      THEN LET first == CHOOSE i \in hits : \A j \in hits : i <= j
           IN  [found |-> TRUE,
                daily |-> daily,
                limited |-> [limited EXCEPT ![order[first]] = FALSE],
                fresh |-> fresh,
                current |-> order[first],
                until |-> allExhaustedUntil]
      ELSE [found |-> FALSE,
            daily |-> daily,
            limited |-> limited,
            fresh |-> fresh,
            current |-> currentKey,
            until |-> IF AllDailyExhausted(daily) THEN day ELSE allExhaustedUntil]

\* markKeySuccess; rateLimitedAt is read only while rateLimited is set.
markKeySuccess(idx) ==
  /\ rateLimited' = [rateLimited EXCEPT ![idx] = FALSE]
  /\ rateLimitedFresh' = [rateLimitedFresh EXCEPT ![idx] = FALSE]
  /\ UNCHANGED dailyExhausted

clockVars == <<day, resetsDone>>
keyVars == <<currentKey, dailyExhausted, rateLimited, rateLimitedFresh,
             allExhaustedUntil, markedRecently>>
notPoolVars == <<scraperVars, fetchVars, limiterVars, normVars, repoVars,
                 matcherVars, ckptVars, cacheVars, adapterVars>>

\* doRequestWithFailover returns to its caller: its locals and the context of
\* the call are gone with it (the next call comes with a context of its own).
Returns(c, result) ==
  /\ gpc' = [gpc EXCEPT ![c] = "idle"]
  /\ gresult' = result
  /\ gkey' = [gkey EXCEPT ![c] = 0]
  /\ triedKeys' = [triedKeys EXCEPT ![c] = 0]
  /\ sleepUntil' = [sleepUntil EXCEPT ![c] = NoInstant]
  /\ gctxDone' = [gctxDone EXCEPT ![c] = FALSE]
  /\ barrier' = [barrier EXCEPT ![c] = NoInstant]
  /\ firstFailover' =
       IF groqCalls # 1 THEN firstFailover
       ELSE IF result = "ok" /\ firstFailover.failed # {}
               /\ gkey[c] \notin firstFailover.failed
       THEN [firstFailover EXCEPT !.key = gkey[c]]
       ELSE NoFailover

\* The locals of a call that goes on.
Continues(c) == UNCHANGED <<gkey, triedKeys, sleepUntil, gctxDone, barrier>>

\* A caller enters doRequestWithFailover.
CallStart(c) ==
  /\ gpc[c] = "idle"
  /\ groqCalls < MaxGroqCalls
  /\ groqCalls' = groqCalls + 1
  /\ gpc' = [gpc EXCEPT ![c] = "wait"]
  /\ UNCHANGED gresult
  /\ barrier' = [barrier EXCEPT ![c] =
                   IF AllDailyExhausted(dailyExhausted) THEN allExhaustedUntil
                   ELSE NoInstant]
  /\ UNCHANGED <<clockVars, keyVars, gkey, triedKeys, sleepUntil, gctxDone>>
  /\ firstFailover' = IF firstFailover.key = NoKey THEN NoFailover ELSE firstFailover
  /\ UNCHANGED notPoolVars

\* The caller's context is cancelled.
GroqCancel(c) ==
  /\ gpc[c] # "idle"
  /\ ~gctxDone[c]
  /\ gctxDone' = [gctxDone EXCEPT ![c] = TRUE]
  /\ UNCHANGED <<clockVars, keyVars, gpc, gkey, triedKeys, sleepUntil, gresult,
                 groqCalls, barrier>>
  /\ UNCHANGED firstFailover
  /\ UNCHANGED notPoolVars

\* waitUntilMidnight that never waits.
WaitCheckNeverWaits(c) ==
  /\ gpc[c] = "wait"
  /\ gpc' = [gpc EXCEPT ![c] = "loop"]
  /\ triedKeys' = [triedKeys EXCEPT ![c] = 0]
  /\ UNCHANGED sleepUntil
  /\ UNCHANGED <<clockVars, keyVars, gkey, gctxDone, gresult, groqCalls, barrier>>
  /\ UNCHANGED firstFailover
  /\ UNCHANGED notPoolVars

\* waitUntilMidnight up to its select: nothing to wait for, or the wait begins.
WaitCheck(c) ==
  /\ gpc[c] = "wait"
  /\ IF allExhaustedUntil = NoInstant \/ day > allExhaustedUntil
     THEN /\ gpc' = [gpc EXCEPT ![c] = "loop"]
          /\ triedKeys' = [triedKeys EXCEPT ![c] = 0]
          /\ UNCHANGED sleepUntil
     ELSE /\ gpc' = [gpc EXCEPT ![c] = "sleeping"]
          /\ sleepUntil' = [sleepUntil EXCEPT ![c] = allExhaustedUntil]
          /\ UNCHANGED triedKeys
  /\ UNCHANGED <<clockVars, keyVars, gkey, gctxDone, gresult, groqCalls, barrier>>
  /\ UNCHANGED firstFailover
  /\ UNCHANGED notPoolVars

\* waitUntilMidnight's select takes the timer: the awaited midnight has passed.
WakeUp(c) ==
  /\ gpc[c] = "sleeping"
  /\ day > sleepUntil[c]
  /\ gpc' = [gpc EXCEPT ![c] = "loop"]
  /\ triedKeys' = [triedKeys EXCEPT ![c] = 0]
  /\ UNCHANGED <<clockVars, keyVars, gkey, sleepUntil, gctxDone, gresult,
                 groqCalls, barrier>>
  /\ UNCHANGED firstFailover
  /\ UNCHANGED notPoolVars

\* waitUntilMidnight's select takes ctx.Done(): the call returns ctx.Err().
WakeCancelled(c) ==
  /\ gpc[c] = "sleeping"
  /\ gctxDone[c]
  /\ Returns(c, "cancelled")
  /\ UNCHANGED <<clockVars, keyVars, groqCalls>>
  /\ UNCHANGED notPoolVars

\* The head of the inner loop when every call begins at the first key, whatever
\* the current-key index, and follows the index from its second key on.
LoadKeyFromFirstKey(c) ==
  /\ gpc[c] = "loop"
  /\ IF triedKeys[c] >= NumKeys
     THEN /\ gpc' = [gpc EXCEPT ![c] = "exit"]
          /\ Continues(c)
          /\ UNCHANGED <<gresult, firstFailover>>
     ELSE IF gctxDone[c]
     THEN Returns(c, "cancelled")
     ELSE /\ gpc' = [gpc EXCEPT ![c] = "check"]
          /\ gkey' = [gkey EXCEPT ![c] =
                       IF triedKeys[c] = 0 THEN 0 ELSE currentKey % NumKeys]
          /\ UNCHANGED <<gresult, triedKeys, sleepUntil, gctxDone, barrier,
                         firstFailover>>
  /\ UNCHANGED <<clockVars, keyVars, groqCalls>>
  /\ UNCHANGED notPoolVars

\* The head of the inner loop: its condition, the context check, getCurrentKey.
LoadKey(c) ==
  /\ gpc[c] = "loop"
  /\ IF triedKeys[c] >= NumKeys
     THEN /\ gpc' = [gpc EXCEPT ![c] = "exit"]
          /\ Continues(c)
          /\ UNCHANGED <<gresult, firstFailover>>
     ELSE IF gctxDone[c]
     THEN Returns(c, "cancelled")
     ELSE /\ gpc' = [gpc EXCEPT ![c] = "check"]
          /\ gkey' = [gkey EXCEPT ![c] = currentKey % NumKeys]
          /\ UNCHANGED <<gresult, triedKeys, sleepUntil, gctxDone, barrier,
                         firstFailover>>
  /\ UNCHANGED <<clockVars, keyVars, groqCalls>>
  /\ UNCHANGED notPoolVars

\* The read of keyStatus[keyIdx].dailyExhausted and the skip it may cause.
CheckDaily(c) ==
  /\ gpc[c] = "check"
  /\ IF dailyExhausted[gkey[c]]
     THEN /\ triedKeys' = [triedKeys EXCEPT ![c] = @ + 1]
          /\ currentKey' = (gkey[c] + 1) % NumKeys
          /\ gpc' = [gpc EXCEPT ![c] = "loop"]
     ELSE /\ gpc' = [gpc EXCEPT ![c] = "send"]
          /\ UNCHANGED <<triedKeys, currentKey>>
  /\ UNCHANGED <<clockVars, dailyExhausted, rateLimited, rateLimitedFresh,
                 allExhaustedUntil, markedRecently, gkey, sleepUntil, gctxDone,
                 gresult, groqCalls, barrier>>
  /\ UNCHANGED firstFailover
  /\ UNCHANGED notPoolVars

\* httpClient.Do sends the request with the key read at the head of the loop.
SendRequest(c) ==
  /\ gpc[c] = "send"
  /\ gpc' = [gpc EXCEPT ![c] = "inflight"]
  /\ UNCHANGED <<clockVars, keyVars, gkey, triedKeys, sleepUntil, gctxDone,
                 gresult, groqCalls, barrier>>
  /\ firstFailover' = IF groqCalls = 2 /\ firstFailover.key # NoKey
                      THEN [firstFailover EXCEPT !.sent = TRUE]
                      ELSE firstFailover
  /\ UNCHANGED notPoolVars

\* A 429 arrives: rotateKey, and the continuation if it found a key.
TooManyRequests(c, isDailyLimit) ==
  LET r == rotateKey(gkey[c], isDailyLimit)
  IN  /\ gpc[c] = "inflight"
      /\ dailyExhausted' = r.daily
      /\ rateLimited' = r.limited
      /\ rateLimitedFresh' = r.fresh
      /\ currentKey' = r.current
      /\ allExhaustedUntil' = r.until
      /\ markedRecently' = IF isDailyLimit THEN markedRecently
                           ELSE [markedRecently EXCEPT ![gkey[c]] = TRUE]
      /\ barrier' = [barrier EXCEPT ![c] =
                       IF AllDailyExhausted(r.daily) /\ ~r.found THEN r.until ELSE @]
      /\ IF r.found
         THEN /\ triedKeys' = [triedKeys EXCEPT ![c] = @ + 1]
              /\ gpc' = [gpc EXCEPT ![c] = "loop"]
         ELSE /\ gpc' = [gpc EXCEPT ![c] = "rotfail"]
              /\ UNCHANGED triedKeys
      /\ UNCHANGED <<clockVars, gkey, sleepUntil, gctxDone, gresult, groqCalls>>
      /\ firstFailover' = IF groqCalls = 1
                          THEN [firstFailover EXCEPT !.failed = @ \cup {gkey[c]}]
                          ELSE firstFailover
      /\ UNCHANGED notPoolVars

\* After rotateKey found nothing: the read of allExhaustedUntil that decides
\* between leaving the inner loop and returning the error.
RotateFailed(c) ==
  /\ gpc[c] = "rotfail"
  /\ IF allExhaustedUntil # NoInstant
     THEN /\ gpc' = [gpc EXCEPT ![c] = "exit"]
          /\ Continues(c)
          /\ UNCHANGED <<gresult, firstFailover>>
     ELSE Returns(c, "rate limited")
  /\ UNCHANGED <<clockVars, keyVars, groqCalls>>
  /\ UNCHANGED notPoolVars

\* A 200 whose error message names the daily quota: rotateKey's result is
\* dropped and the loop goes on.
DailyInBody(c) ==
  LET r == rotateKey(gkey[c], TRUE)
  IN  /\ gpc[c] = "inflight"
      /\ dailyExhausted' = r.daily
      /\ rateLimited' = r.limited
      /\ rateLimitedFresh' = r.fresh
      /\ currentKey' = r.current
      /\ allExhaustedUntil' = r.until
      /\ barrier' = [barrier EXCEPT ![c] =
                       IF AllDailyExhausted(r.daily) /\ ~r.found THEN r.until ELSE @]
      /\ triedKeys' = [triedKeys EXCEPT ![c] = @ + 1]
      /\ gpc' = [gpc EXCEPT ![c] = "loop"]
      /\ UNCHANGED <<clockVars, markedRecently, gkey, sleepUntil, gctxDone,
                     gresult, groqCalls>>
      /\ firstFailover' = IF groqCalls = 1
                          THEN [firstFailover EXCEPT !.failed = @ \cup {gkey[c]}]
                          ELSE firstFailover
      /\ UNCHANGED notPoolVars

\* A completion arrives: markKeySuccess and the call returns it.
Success(c) ==
  /\ gpc[c] = "inflight"
  /\ markKeySuccess(gkey[c])
  /\ Returns(c, "ok")
  /\ UNCHANGED <<clockVars, currentKey, allExhaustedUntil, markedRecently,
                 groqCalls>>
  /\ UNCHANGED notPoolVars

\* A transport error, a status other than 200 and 429, an unparsable body, any
\* other error message, no choices: the call returns the error.
RequestFails(c) ==
  /\ gpc[c] = "inflight"
  /\ Returns(c, "error")
  /\ UNCHANGED <<clockVars, keyVars, groqCalls>>
  /\ UNCHANGED notPoolVars

Response(c, reply) ==
  \/ reply = "ok" /\ Success(c)
  \/ reply = "minute" /\ TooManyRequests(c, FALSE)
  \/ reply = "daily" /\ TooManyRequests(c, TRUE)
  \/ reply = "dailyBody" /\ DailyInBody(c)
  \/ reply = "error" /\ RequestFails(c)

\* Below the inner loop: the read of allExhaustedUntil that decides between
\* the error and another turn of the outer loop.
AllKeysTried(c) ==
  /\ gpc[c] = "exit"
  /\ IF allExhaustedUntil = NoInstant
     THEN Returns(c, "exhausted")
     ELSE /\ gpc' = [gpc EXCEPT ![c] = "wait"]
          /\ Continues(c)
          /\ UNCHANGED <<gresult, firstFailover>>
  /\ UNCHANGED <<clockVars, keyVars, groqCalls>>
  /\ UNCHANGED notPoolVars

\* More than a minute goes by: every minute-limit mark is now older than that.
MinutePasses ==
  /\ \E k \in Keys : rateLimitedFresh[k] \/ markedRecently[k]
  /\ rateLimitedFresh' = [k \in Keys |-> FALSE]
  /\ markedRecently' = [k \in Keys |-> FALSE]
  /\ UNCHANGED <<clockVars, currentKey, dailyExhausted, rateLimited,
                 allExhaustedUntil, gpc, gkey, triedKeys, sleepUntil, gctxDone,
                 gresult, groqCalls, barrier>>
  /\ UNCHANGED firstFailover
  /\ UNCHANGED notPoolVars

\* Midnight UTC goes by.  The timers of midnightResetLoop and of the waiting
\* callers are now due; which of them runs first is open.  The mark of a key
\* limited within the last minute stays recent.
Midnight ==
  /\ day < MaxDays
  /\ day' = day + 1
  /\ UNCHANGED <<resetsDone, keyVars, gpc, gkey, triedKeys, sleepUntil, gctxDone,
                 gresult, groqCalls, barrier>>
  /\ UNCHANGED firstFailover
  /\ UNCHANGED notPoolVars

\* midnightResetLoop wakes and runs resetAllDailyLimits.
resetAllDailyLimits ==
  /\ resetsDone < day - 1
  /\ resetsDone' = resetsDone + 1
  /\ dailyExhausted' = [k \in Keys |-> FALSE]
  /\ rateLimited' = [k \in Keys |-> FALSE]
  /\ rateLimitedFresh' = [k \in Keys |-> FALSE]
  /\ allExhaustedUntil' = NoInstant
  /\ barrier' = [c \in GroqCallers |->
                   IF barrier[c] = NoInstant THEN NoInstant ELSE Released]
  /\ UNCHANGED <<day, currentKey, markedRecently, gpc, gkey, triedKeys,
                 sleepUntil, gctxDone, gresult, groqCalls>>
  /\ UNCHANGED firstFailover
  /\ UNCHANGED notPoolVars

PoolInit == ScraperIdle /\ ClientsIdle

PoolNext ==
  \/ \E c \in GroqCallers : CallStart(c)
  \/ \E c \in GroqCallers : GroqCancel(c)
  \/ \E c \in GroqCallers : WaitCheck(c)
  \/ \E c \in GroqCallers : WakeUp(c)
  \/ \E c \in GroqCallers : WakeCancelled(c)
  \/ \E c \in GroqCallers : LoadKey(c)
  \/ \E c \in GroqCallers : CheckDaily(c)
  \/ \E c \in GroqCallers : SendRequest(c)
  \/ \E c \in GroqCallers, reply \in Replies : Response(c, reply)
  \/ \E c \in GroqCallers : RotateFailed(c)
  \/ \E c \in GroqCallers : AllKeysTried(c)
  \/ MinutePasses
  \/ Midnight
  \/ resetAllDailyLimits

PoolSpec == PoolInit /\ [][PoolNext]_vars

\* The step in which caller c sends a request.
Sends(c) == gpc[c] = "send" /\ gpc'[c] = "inflight"

\* C15: from the moment a key is flagged daily-exhausted until the midnight
\* reset, no request is sent with that key, whatever the number of concurrent
\* callers, and nothing but the midnight reset clears the flag (a success on
\* another key in particular does not).
C15_ExhaustedKeyNotUsed ==
  [][/\ \A c \in GroqCallers : Sends(c) => ~dailyExhausted[gkey[c]]
     /\ \A k \in Keys : (dailyExhausted[k] /\ ~dailyExhausted'[k])
                           => resetsDone' = resetsDone + 1]_vars

\* C16: a key marked minute-limited is used for no request until 60 seconds
\* have passed since it was marked, and once they have passed rotateKey
\* selects it again.
C16_LimitedKeyRestsAMinute ==
  [][\A c \in GroqCallers : Sends(c) => ~markedRecently[gkey[c]]]_vars

\* The step in which caller c gets a 429 and rotateKey finds no key.
RotationFails(c) == gpc[c] = "inflight" /\ gpc'[c] = "rotfail"

\* The step caller c takes after rotateKey found no key.
AfterRotationFailed(c) == gpc[c] = "rotfail" /\ gpc'[c] # "rotfail"

\* C17: when a request gets a 429 and rotateKey finds no key while not every
\* key is daily-exhausted (the others are minute-limited), all-exhausted-until
\* is left as it was and the call returns the rate-limit error at once, without
\* entering the wait for midnight.
C17_AllMinuteLimitedFailsAtOnce ==
  [][\A c \in GroqCallers :
       /\ (RotationFails(c) /\ ~AllDailyExhausted(dailyExhausted'))
            => allExhaustedUntil' = allExhaustedUntil
       /\ (AfterRotationFailed(c) /\ ~AllDailyExhausted(dailyExhausted))
            => /\ gpc'[c] = "idle"
               /\ gresult' = "rate limited"
               /\ allExhaustedUntil' = allExhaustedUntil]_vars

\* A call has just returned the rate-limit error although some key is not
\* daily-exhausted, and nothing waits for a midnight.
C17_Witness ==
  /\ gresult = "rate limited"
  /\ \E k \in Keys : ~dailyExhausted[k] /\ rateLimited[k]
  /\ \E k \in Keys : dailyExhausted[k]
  /\ allExhaustedUntil = NoInstant
  /\ \A c \in GroqCallers : gpc[c] = "idle"

MaxOptions == 3

\* Candidate descriptions and vehicles, with and without a turbo keyword.
OptionPool == {<<"Gol", "1.0">>, <<"Gol", "Turbo">>, <<"Polo", "TSI">>}
WegaVehicles == {<<"Gol", "Flex">>, <<"Gol", "TSI">>}

RECURSIVE SeqsUpTo(_, _)
SeqsUpTo(S, n) ==
  IF n = 0 THEN {<<>>}
  ELSE LET shorter == SeqsUpTo(S, n - 1)
       IN  shorter \cup {Append(q, x) : q \in shorter, x \in S}

OptionLists == SeqsUpTo(OptionPool, MaxOptions)

\* Replies of the LLM, character by character: a number in range, out of
\* range, zero, several digits, digits inside text, no digit, nothing.
LLMReplies == {<<"1">>, <<"2">>, <<"3">>, <<"4">>, <<"9">>, <<"0">>, <<" ", "2", " ">>,
               <<"1", "2">>, <<"0", "3">>, <<"n", "o">>, <<"#", "2", ".">>, <<>>}

RECURSIVE TrimLeft(_)
TrimLeft(s) == IF s # <<>> /\ Head(s) = " " THEN TrimLeft(Tail(s)) ELSE s

RECURSIVE TrimRight(_)
TrimRight(s) ==
  IF s # <<>> /\ s[Len(s)] = " " THEN TrimRight(SubSeq(s, 1, Len(s) - 1)) ELSE s

TrimSpace(s) == TrimRight(TrimLeft(s))

\* int(char - '0') for the characters '1' to '9', 0 for any other.
DigitValue(char) ==
  CASE char = "1" -> 1 [] char = "2" -> 2 [] char = "3" -> 3
    [] char = "4" -> 4 [] char = "5" -> 5 [] char = "6" -> 6
    [] char = "7" -> 7 [] char = "8" -> 8 [] char = "9" -> 9
    [] OTHER -> 0

\* The first character from '1' to '9' of the response, 0 when there is none.
RECURSIVE FirstOptionNum(_)
FirstOptionNum(response) ==
  IF response = <<>> THEN 0
  ELSE IF DigitValue(Head(response)) > 0 THEN DigitValue(Head(response))
  ELSE FirstOptionNum(Tail(response))

turboKeywords == {<<"turbo">>, <<"tsi">>, <<"tfsi">>, <<"t200">>, <<"thp">>,
                  <<"130cv">>, <<"130", "cv">>, <<"125cv">>, <<"125", "cv">>}

IsTurbo(text) == \E kw \in turboKeywords : StrContains(ToLower(text), kw)

\* smartFallback without its closing return: nothing when no option has the
\* vehicle's engine type.
smartFallbackNoDefault(wegaVehicle, motulOptions) ==
  LET hits == {i \in DOMAIN motulOptions :
                 IsTurbo(motulOptions[i]) = IsTurbo(wegaVehicle)}
  IN  IF hits # {}
      THEN motulOptions[CHOOSE i \in hits : \A j \in hits : i <= j]
      ELSE <<>>

smartFallback(wegaVehicle, motulOptions) ==
  LET hits == {i \in DOMAIN motulOptions :
                 IsTurbo(motulOptions[i]) = IsTurbo(wegaVehicle)}
  IN  IF hits # {}
      THEN motulOptions[CHOOSE i \in hits : \A j \in hits : i <= j]
      ELSE motulOptions[1]

\* NormalizeVehicle from the response of doRequestWithFailover on.
ParseResponse(wegaVehicle, motulOptions, response) ==
  LET optionNum == FirstOptionNum(TrimSpace(response))
  IN  IF optionNum = 0 THEN smartFallback(wegaVehicle, motulOptions)
      ELSE IF optionNum > Len(motulOptions)
      THEN smartFallback(wegaVehicle, motulOptions)
      ELSE motulOptions[optionNum]

notNormVars == <<scraperVars, fetchVars, limiterVars, poolVars, repoVars,
                 matcherVars, ckptVars, cacheVars, adapterVars>>

\* NormalizeVehicle is called: the two short cuts, else on to the Rate Limiter.
NormalizeCall(wegaVehicle, motulOptions) ==
  /\ npc \in {"idle", "done"}
  /\ nWega' = wegaVehicle
  /\ nOptions' = motulOptions
  /\ nRequests' = 0
  /\ IF Len(motulOptions) = 0
     THEN /\ nOut' = [result |-> <<>>, err |-> "no Motul options provided"]
          /\ npc' = "done"
     ELSE IF Len(motulOptions) = 1
     THEN /\ nOut' = [result |-> motulOptions[1], err |-> "nil"]
          /\ npc' = "done"
     ELSE /\ nOut' = NoResult
          /\ npc' = "wait"
  /\ UNCHANGED notNormVars

\* rateLimiter.Wait returns.
NormalizeWaitReturns(failed) ==
  /\ npc = "wait"
  /\ IF failed
     THEN /\ nOut' = [result |-> <<>>, err |-> "rate limit wait failed"]
          /\ npc' = "done"
     ELSE /\ npc' = "request"
          /\ UNCHANGED nOut
  /\ UNCHANGED <<nWega, nOptions, nRequests>>
  /\ UNCHANGED notNormVars

\* doRequestWithFailover returns, with an error or with the LLM's text.
NormalizeRequestReturns(failed, response) ==
  /\ npc = "request"
  /\ nRequests' = nRequests + 1
  /\ npc' = "done"
  /\ nOut' = IF failed
             THEN [result |-> <<>>, err |-> "request failed"]
             ELSE [result |-> ParseResponse(nWega, nOptions, response), err |-> "nil"]
  /\ UNCHANGED <<nWega, nOptions>>
  /\ UNCHANGED notNormVars

NormInit == ScraperIdle /\ ClientsIdle

NormNext ==
  \/ \E w \in WegaVehicles, o \in OptionLists : NormalizeCall(w, o)
  \/ \E failed \in BOOLEAN : NormalizeWaitReturns(failed)
  \/ \E failed \in BOOLEAN, response \in LLMReplies :
       NormalizeRequestReturns(failed, response)

NormSpec == NormInit /\ [][NormNext]_vars

\* C19: whenever NormalizeVehicle returns without error for a non-empty list of
\* candidates, the string it returns is one of the candidates, whatever the
\* LLM replied; for a single candidate it returns that candidate and makes no
\* request.
C19_ReturnsACandidate ==
  (npc = "done" /\ nOut.err = "nil")
    => /\ nOptions # <<>>
       /\ nOut.result \in Range(nOptions)
       /\ Len(nOptions) = 1 => (nOut.result = nOptions[1] /\ nRequests = 0)

\* A call with several candidates, none of the vehicle's engine type, has made
\* its request and returned a candidate.
C19_Witness ==
  /\ npc = "done"
  /\ nOut.err = "nil"
  /\ nRequests = 1
  /\ Len(nOptions) = MaxOptions
  /\ \A i \in DOMAIN nOptions : IsTurbo(nOptions[i]) # IsTurbo(nWega)
  /\ nOut.result = nOptions[1]

\* ---------------------------------------------------------------------------
\* Failure store: the SCRAPER_FALHAS table behind ScraperFalhaRepo
\* ---------------------------------------------------------------------------
TiposErro == {"rate_limit", "modelo_nao_encontrado", "api_motul", "api_groq",
              "rede", "parse", "desconhecido"}
Mensagens == {"first message", "second message"}

\* The rows a statement's WHERE or ON CONFLICT on "CodigoAplicacao" meets.
RowsOf(codigoAplicacao) == {r \in falhaRows : r.CodigoAplicacao = codigoAplicacao}

notRepoVars == <<scraperVars, fetchVars, limiterVars, poolVars, normVars,
                 matcherVars, ckptVars, cacheVars, adapterVars>>

\* ScraperFalhaRepo.Upsert: INSERT ... ON CONFLICT ("CodigoAplicacao") DO
\* UPDATE, one statement.  The ID sequence advances on either branch.
ExecUpsert(codigoAplicacao, tipoErro, mensagemErro) ==
  /\ nextID <= MaxRepoCalls
  /\ falhaRows' =
       IF RowsOf(codigoAplicacao) = {}
       THEN falhaRows \cup {[ID |-> nextID, CodigoAplicacao |-> codigoAplicacao,
                             falha |-> Upsert(NoFalha, tipoErro),
                             MensagemErro |-> mensagemErro,
                             ResolvidoEm |-> "null"]}
       ELSE (falhaRows \ RowsOf(codigoAplicacao))
              \cup {[r EXCEPT !.falha = Upsert(@, tipoErro),
                              !.MensagemErro = mensagemErro,
                              !.ResolvidoEm = "null"] :
                      r \in RowsOf(codigoAplicacao)}
  /\ nextID' = nextID + 1
  /\ upserts' = [upserts EXCEPT ![codigoAplicacao] = @ + 1]
  /\ lastCall' = <<"Upsert", codigoAplicacao>>
  /\ lastArgs' = <<tipoErro, mensagemErro>>
  /\ returned' = {}
  /\ UNCHANGED notRepoVars

\* ScraperFalhaRepo.MarkResolved: UPDATE ... WHERE "CodigoAplicacao" = $1.
ExecMarkResolved(codigoAplicacao) ==
  /\ falhaRows' =
       (falhaRows \ RowsOf(codigoAplicacao))
         \cup {[r EXCEPT !.falha = MarkResolved(@), !.ResolvidoEm = "now"] :
                 r \in RowsOf(codigoAplicacao)}
  /\ lastCall' = <<"MarkResolved", codigoAplicacao>>
  /\ returned' = {}
  /\ UNCHANGED <<nextID, upserts, lastArgs>>
  /\ UNCHANGED notRepoVars

MaxLimit == 2

\* "ProximaTentativa" IS NULL OR "ProximaTentativa" <= NOW(), where due are the
\* vehicles whose next attempt, if any, lies in the past at the time of the query.
RetryTimeCome(r, due) == r.falha.ProximaDelay = "null" \/ r.CodigoAplicacao \in due

\* ORDER BY "ProximaTentativa" ASC NULLS LAST, "Tentativas" ASC; the order of
\* two non-null timestamps is open.
PendingBefore(a, b) ==
  \/ a.falha.ProximaDelay # "null" /\ b.falha.ProximaDelay = "null"
  \/ /\ a.falha.ProximaDelay = "null"
     /\ b.falha.ProximaDelay = "null"
     /\ a.falha.Tentativas < b.falha.Tentativas

\* ORDER BY "Tentativas" ASC, "UltimaTentativa" ASC.
ByTypeBefore(a, b) == a.falha.Tentativas < b.falha.Tentativas

\* The answers of SELECT ... ORDER BY ... LIMIT over the rows in matching:
\* min(limit, all) rows, none left out that sorts strictly before one taken.
\* orderBy names the ORDER BY clause of the query.
Limited(matching, orderBy, limit) ==
  {T \in SUBSET matching :
     /\ Cardinality(T) = min(limit, Cardinality(matching))
     /\ \A t \in T, m \in matching \ T :
          ~(IF orderBy = "pending" THEN PendingBefore(m, t) ELSE ByTypeBefore(m, t))}

\* ScraperFalhaRepo.GetPendingRetries.
GetPendingRetries(limit, due) ==
  /\ returned' \in Limited({r \in falhaRows :
                               ~r.falha.Resolvido /\ RetryTimeCome(r, due)},
                            "pending", limit)
  /\ lastCall' = <<"GetPendingRetries", 0>>
  /\ UNCHANGED <<falhaRows, nextID, upserts, lastArgs>>
  /\ UNCHANGED notRepoVars

\* ScraperFalhaRepo.GetRetryableByType.
GetRetryableByType(tipoErro, limit, due) ==
  /\ returned' \in Limited({r \in falhaRows :
                               /\ ~r.falha.Resolvido
                               /\ r.falha.TipoErro = tipoErro
                               /\ RetryTimeCome(r, due)},
                            "byType", limit)
  /\ lastCall' = <<"GetRetryableByType", 0>>
  /\ UNCHANGED <<falhaRows, nextID, upserts, lastArgs>>
  /\ UNCHANGED notRepoVars

RepoInit == ScraperIdle /\ ClientsIdle

RepoNext ==
  \/ \E v \in FalhaVehicles, tipoErro \in TiposErro, mensagemErro \in Mensagens :
       ExecUpsert(v, tipoErro, mensagemErro)
  \/ \E v \in FalhaVehicles : ExecMarkResolved(v)
  \/ \E limit \in 1..MaxLimit, due \in SUBSET FalhaVehicles : GetPendingRetries(limit, due)
  \/ \E tipoErro \in TiposErro, limit \in 1..MaxLimit, due \in SUBSET FalhaVehicles :
       GetRetryableByType(tipoErro, limit, due)

RepoSpec == RepoInit /\ [][RepoNext]_vars

\* C20: for each vehicle, after any sequence of Upsert and MarkResolved calls
\* there is at most one failure record; it exists exactly when an Upsert was
\* made for the vehicle and its attempt count is the number of these Upserts
\* (1 after the first); right after an Upsert the record is unresolved with
\* resolved-at cleared, and right after a MarkResolved it is resolved.
C20_OneRecordCountingUpserts ==
  \A v \in FalhaVehicles :
    /\ Cardinality(RowsOf(v)) <= 1
    /\ (upserts[v] = 0) <=> (RowsOf(v) = {})
    /\ \A r \in RowsOf(v) :
         /\ r.falha.Tentativas = upserts[v]
         /\ lastCall = <<"Upsert", v>>
              => (~r.falha.Resolvido /\ r.ResolvidoEm = "null")
         /\ lastCall = <<"MarkResolved", v>>
              => (r.falha.Resolvido /\ r.ResolvidoEm = "now")

\* Vehicle 1 has just failed for the third time: three attempts on its one
\* record, which is unresolved, while the record of vehicle 2 is resolved.
C20_Witness ==
  /\ lastCall = <<"Upsert", 1>>
  /\ upserts[1] = 3
  /\ \E r \in RowsOf(1) : r.falha.Tentativas = 3 /\ ~r.falha.Resolvido
  /\ \E r \in RowsOf(2) : r.falha.Resolvido

\* C21: right after an Upsert the vehicle's record carries the kind and the
\* message of that Upsert, and its next attempt is 1 minute from now for
\* rate-limit, 5 minutes for network, null for model-not-found and 30 minutes
\* for every other kind, whatever the record held before.
C21_NextAttemptFromLatestKind ==
  \A v \in FalhaVehicles :
    lastCall = <<"Upsert", v>> =>
      \A r \in RowsOf(v) :
        /\ r.falha.TipoErro = lastArgs[1]
        /\ r.MensagemErro = lastArgs[2]
        /\ r.falha.ProximaDelay =
             CASE lastArgs[1] = "rate_limit" -> "1"
               [] lastArgs[1] = "rede" -> "5"
               [] lastArgs[1] = "modelo_nao_encontrado" -> "null"
               [] OTHER -> "30"

\* The record of vehicle 1, upserted a second time, carries the kind, the
\* message and the null next attempt of that Upsert, while the network failure
\* of vehicle 2 is due in 5 minutes.
C21_Witness ==
  /\ lastCall = <<"Upsert", 1>>
  /\ lastArgs = <<"modelo_nao_encontrado", "second message">>
  /\ \E r \in RowsOf(1) :
       /\ r.falha.Tentativas = 2
       /\ r.falha.ProximaDelay = "null"
       /\ r.MensagemErro = "second message"
  /\ \E r \in RowsOf(2) : r.falha.TipoErro = "rede" /\ r.falha.ProximaDelay = "5"

\* C23: a failure record whose next attempt is null is never selected for
\* automatic retry: neither GetPendingRetries nor GetRetryableByType returns it.
C23_NullNextAttemptNeverSelected ==
  \A r \in returned : r.falha.ProximaDelay # "null"

\* C22: in every reachable state of the stores, no vehicle has at least one
\* oil specification row together with a failure record whose resolved flag
\* is false.
C22_NoSpecsWithOpenFailure ==
  \A id \in VehicleIds :
    especificacoes[id] > 0 => (falhas[id] = NoFalha \/ falhas[id].Resolvido)

\* C29: NormalizeVehicle decides on the first digit character, '0' to '9', of
\* the LLM's reply: when a request returns a reply whose first digit is 0 or
\* is larger than the number of candidates, the result is the one smartFallback
\* chooses; otherwise it is the candidate with that 1-based number.
C29_DecidesOnFirstDigit ==
  [][\A response \in LLMReplies :
       LET digits == {"0", "1", "2", "3", "4", "5", "6", "7", "8", "9"}
           at == {i \in DOMAIN response : response[i] \in digits}
           first == CHOOSE i \in at : \A j \in at : i <= j
           digit == IF response[first] = "0" THEN 0
                    ELSE DigitValue(response[first])
       IN  (NormalizeRequestReturns(FALSE, response) /\ at # {})
             => nOut'.result =
                  IF digit = 0 \/ digit > Len(nOptions)
                  THEN smartFallback(nWega, nOptions)
                  ELSE nOptions[digit]]_vars

\* C28: when the first call, begun with no other call in progress, has failed
\* over from key i and completes with another key j, the step that completes it
\* leaves the current-key index at j; and the next call, with no third call
\* begun, sends its first request with that key j and with none of the keys the
\* first call failed on.
C28_NextCallStartsOnFailoverKey ==
  [][\A c \in GroqCallers :
       /\ ( /\ gpc[c] = "inflight" /\ gpc'[c] = "idle" /\ gresult' = "ok"
            /\ groqCalls = 1
            /\ firstFailover.failed # {} /\ gkey[c] \notin firstFailover.failed )
            => currentKey' = gkey[c]
       /\ ( /\ Sends(c)
            /\ groqCalls = 2
            /\ firstFailover.key # NoKey /\ ~firstFailover.sent )
            => /\ gkey[c] = firstFailover.key
               /\ gkey[c] \notin firstFailover.failed]_vars

\* The first call failed on key 0 and completed with key 1; the second call has
\* sent its first request, with key 1, and nothing has come back yet.
C28_Witness ==
  /\ firstFailover = [failed |-> {0}, key |-> 1, sent |-> TRUE]
  /\ groqCalls = 2
  /\ currentKey = 1
  /\ \E c \in GroqCallers : gpc[c] = "inflight" /\ gkey[c] = 1 /\ triedKeys[c] = 0

\* ------------------------------------------------------------ smart matcher
\* The catalog the loader holds (MotulCatalog): the brands in catalog order,
\* their models, the models' vehicle types.
Catalog == <<
  [Name |-> <<"Volkswagen">>,
   Models |-> <<
     [Name |-> <<"Gol">>,
      Types |-> <<[ID |-> "t1", Name |-> <<"Gol", "1.0">>],
                  [ID |-> "t2", Name |-> <<"Gol", "1.6">>]>>],
     [Name |-> <<"Polo">>,
      Types |-> <<[ID |-> "t3", Name |-> <<"Polo", "TSI">>]>>]>>],
  [Name |-> <<"Fiat">>,
   Models |-> <<
     [Name |-> <<"Uno">>,
      Types |-> <<[ID |-> "t4", Name |-> <<"Uno", "1.0">>],
                  [ID |-> "t5", Name |-> <<"Uno", "Turbo">>]>>]>>]
>>

\* The most options a Disambiguator call of the model is given.
MaxAnswers == 2

\* normalizeString of catalog_loader.go: lower case, spaces dropped.  A text is
\* its tokens, so the key is the lower-case tokens; no two names of the catalog
\* differ in spacing only.
normalizeKey(s) == ToLower(s)

\* CatalogLoader.FindBrand as the position in the catalog, 0 for nil.  BrandMap
\* is filled in catalog order, so the last brand of a name is the one it holds.
FindBrand(brandName) ==
  LET hits == {i \in DOMAIN Catalog :
                 normalizeKey(Catalog[i].Name) = normalizeKey(brandName)}
  IN  IF hits = {} THEN 0 ELSE CHOOSE i \in hits : \A j \in hits : j <= i

GetBrandNames == [i \in DOMAIN Catalog |-> Catalog[i].Name]

GetModelNames(brandName) ==
  LET brand == FindBrand(brandName)
  IN  IF brand = 0 THEN <<>>
      ELSE [i \in DOMAIN Catalog[brand].Models |-> Catalog[brand].Models[i].Name]

GetVehicleTypes(brandName, modelName) ==
  LET brand == FindBrand(brandName)
      models == IF brand = 0 THEN <<>> ELSE Catalog[brand].Models
      hits == {i \in DOMAIN models :
                 normalizeKey(models[i].Name) = normalizeKey(modelName)}
  IN  IF hits = {} THEN <<>>
      ELSE models[CHOOSE i \in hits : \A j \in hits : i <= j].Types

\* The aliases map of matchBrand; the empty text where the map has no entry.
aliases(normalized) ==
  CASE normalized = <<"vw">> -> <<"volkswagen">>
    [] normalized = <<"volkswagen">> -> <<"volkswagen">>
    [] normalized = <<"bmw">> -> <<"bmw">>
    [] normalized = <<"mercedes">> -> <<"mercedes-benz">>
    [] normalized = <<"merc">> -> <<"mercedes-benz">>
    [] normalized = <<"gm">> -> <<"chevrolet">>
    [] normalized = <<"chevy">> -> <<"chevrolet">>
    [] normalized = <<"fiat">> -> <<"fiat">>
    [] OTHER -> <<>>

\* strings.Contains between two tokens: the pairs of the vocabulary in which
\* one token is a proper part of the other.
TokenContains(tok, part) == tok = part \/ <<tok, part>> \in {<<"golf", "gol">>}

\* strings.Contains(s, sub) where sub may end inside a token of s.
ContainsText(s, sub) ==
  \/ StrContains(s, sub)
  \/ Len(sub) = 1 /\ \E i \in DOMAIN s : TokenContains(s[i], sub[1])

isCommonWord(word) ==
  word \in {"de", "do", "da", "o", "a", "e", "em", "com", "para", "cv", "hp", "v"}

\* len(part) < 2 for the tokens of the vocabulary.
ShorterThanTwo(part) == part \in {"o", "a", "e", "v", "4"}

\* strings.Fields: the tokens between the spaces.
Fields(s) == SelectSeq(s, LAMBDA tok : tok # " ")

containsAllParts(target, source) ==
  LET sourceLower == ToLower(source)
      targetLower == ToLower(target)
      parts == Fields(sourceLower)
      matches == Cardinality({i \in DOMAIN parts :
                                /\ ~(ShorterThanTwo(parts[i]) \/ isCommonWord(parts[i]))
                                /\ ContainsText(targetLower, <<parts[i]>>)})
  IN  matches >= 2

normalizeForComparison(s) == ToLower(TrimSpace(s))

\* What a lookup hands on: the name found, or the error; whether the
\* Disambiguator was asked, and with what.
Resolved(name) == [name |-> name, err |-> FALSE, asked |-> FALSE, prompt |-> <<>>]
Unresolved == [name |-> <<>>, err |-> TRUE, asked |-> FALSE, prompt |-> <<>>]

\* GroqClient.NormalizeVehicle as its callers see it: an error for no option,
\* the option itself for one, otherwise a request; the answer 0 is the failed
\* request, the answer k the option the call returns (k is at most the number
\* of options: StubAllows admits no other answer).
NormalizeVehicle(wegaVehicle, motulOptions, answer) ==
  IF Len(motulOptions) = 0 THEN Unresolved
  ELSE IF Len(motulOptions) = 1 THEN Resolved(motulOptions[1])
  ELSE [name |-> IF answer = 0 \/ answer > Len(motulOptions) THEN <<>>
                 ELSE motulOptions[answer],
        err |-> answer = 0,
        asked |-> TRUE,
        prompt |-> <<wegaVehicle, motulOptions>>]

\* FindBestBrand and FindBestModel: the same search over different options.
FindBest(wega, options, answer) ==
  LET hits == {i \in DOMAIN options :
                 normalizeForComparison(options[i]) = normalizeForComparison(wega)}
  IN  IF Len(options) = 0 THEN Unresolved
      ELSE IF hits # {}
      THEN Resolved(options[CHOOSE i \in hits : \A j \in hits : i <= j])
      ELSE NormalizeVehicle(wega, options, answer)

\* matchBrand below its cache lookup.
matchBrandMiss(wegaBrand, answer) ==
  LET brand == FindBrand(wegaBrand)
      alias == aliases(ToLower(TrimSpace(wegaBrand)))
      aliased == IF alias = <<>> THEN 0 ELSE FindBrand(alias)
  IN  IF brand # 0 THEN Resolved(Catalog[brand].Name)
      ELSE IF aliased # 0 THEN Resolved(Catalog[aliased].Name)
      ELSE IF Len(GetBrandNames) = 0 THEN Unresolved
      ELSE FindBest(wegaBrand, GetBrandNames, answer)

\* matchModel below its cache lookup.
matchModelMiss(motulBrand, wegaModel, answer) ==
  LET modelNames == GetModelNames(motulBrand)
      normalizedWega == ToLower(TrimSpace(wegaModel))
      exact == {i \in DOMAIN modelNames : ToLower(modelNames[i]) = normalizedWega}
      partial == {i \in DOMAIN modelNames :
                    ContainsText(normalizedWega, ToLower(modelNames[i]))}
  IN  IF Len(modelNames) = 0 THEN Unresolved
      ELSE IF exact # {}
      THEN Resolved(modelNames[CHOOSE i \in exact : \A j \in exact : i <= j])
      ELSE IF partial # {}
      THEN Resolved(modelNames[CHOOSE i \in partial : \A j \in partial : i <= j])
      ELSE FindBest(wegaModel, modelNames, answer)

\* The key of the model cache: fmt.Sprintf("%s:%s", motulBrand, wegaModel).
\* A key made of the model alone.
cacheKeyModelOnly(motulBrand, wegaModel) == wegaModel

cacheKey(motulBrand, wegaModel) == motulBrand \o <<":">> \o wegaModel

\* sync.Map Load and Store on a set of <<key, value>> pairs; no value is empty.
NoEntry == <<>>
CacheLoad(cache, key) ==
  IF \E e \in cache : e[1] = key
  THEN (CHOOSE e \in cache : e[1] = key)[2]
  ELSE NoEntry
CacheStore(cache, key, value) == {e \in cache : e[1] # key} \cup {<<key, value>>}

\* fullDescription of FindMatch.
FullDescription(in) ==
  in.wegaBrand \o <<" ">> \o in.wegaModel \o <<" ">> \o in.wegaDescription
    \o (IF in.year > 0 THEN <<" ", "(", in.year, ")">> ELSE <<>>)

\* Steps 3 to 6 of FindMatch: the result and the error it returns, and the
\* Disambiguator call it made.  Confidence is in hundredths.
resolveType(in, motulBrand, motulModel, answer) ==
  LET types == GetVehicleTypes(motulBrand, motulModel)
      typeNames == [i \in DOMAIN types |-> types[i].Name]
      llm == NormalizeVehicle(FullDescription(in), typeNames, answer)
      named == {i \in DOMAIN types : types[i].Name = llm.name}
      none == [err |-> "no vehicle types found", typeID |-> "", confidence |-> 0,
               method |-> "", asked |-> FALSE, prompt |-> <<>>, llmErr |-> FALSE]
  IN  IF Len(types) = 0 THEN none
      ELSE IF Len(types) = 1
      THEN [none EXCEPT !.err = "nil", !.typeID = types[1].ID,
                        !.confidence = 100, !.method = "single"]
      ELSE IF \E i \in DOMAIN types : containsAllParts(types[i].Name, in.wegaDescription)
      THEN [none EXCEPT !.err = "nil", !.typeID = types[1].ID,
                        !.confidence = 95, !.method = "exact"]
      ELSE IF llm.err
      THEN [none EXCEPT !.err = "nil", !.typeID = types[1].ID,
                        !.confidence = 50, !.method = "fallback",
                        !.asked = llm.asked, !.prompt = llm.prompt, !.llmErr = TRUE]
      ELSE IF named # {}
      THEN [none EXCEPT !.err = "nil",
                        !.typeID = types[CHOOSE i \in named : \A j \in named : i <= j].ID,
                        !.confidence = 85, !.method = "llm",
                        !.asked = llm.asked, !.prompt = llm.prompt]
      ELSE [none EXCEPT !.err = "nil", !.typeID = types[1].ID,
                        !.confidence = 50, !.method = "fallback",
                        !.asked = llm.asked, !.prompt = llm.prompt]

notMatcherVars == <<scraperVars, fetchVars, limiterVars, poolVars, normVars,
                    repoVars, ckptVars, cacheVars, adapterVars>>

\* The stub is deterministic: asked the same prompt, it gives the same answer.
StubAllows(r, answer) ==
  IF r.asked
  THEN /\ answer <= Len(r.prompt[2])
       /\ \A told \in stub : told[1] = r.prompt => told[2] = answer
  ELSE answer = 0

StubAsked(r, answer) == IF r.asked THEN stub \cup {<<r.prompt, answer>>} ELSE stub

\* The call of caller c goes through a stage with the lookup r.
Asks(c, r) ==
  mrepeat' = IF r.asked /\ mrepeat[c] = "repeat"
             THEN [mrepeat EXCEPT ![c] = "asked"] ELSE mrepeat

\* Both caches hold what a match of the input looks up.
Warm(in) ==
  LET motulBrand == CacheLoad(brandCache, in.wegaBrand)
  IN  /\ motulBrand # NoEntry
      /\ CacheLoad(modelCache, cacheKey(motulBrand, in.wegaModel)) # NoEntry

\* SearchVehicle returns to processVehicle (service.go 442-551), which counts
\* the vehicle and writes to the stores; specsReply is what GetSpecifications
\* does for the type found: "specs" or "specs_err".
FindMatchReturns(c, found, specsReply) ==
  /\ mpc' = [mpc EXCEPT ![c] = "done"]
  /\ mOut' = [mOut EXCEPT ![c] =
       [err |-> found.err, typeID |-> found.typeID,
        confidence |-> found.confidence, method |-> found.method,
        counted |-> IF found.err # "nil" \/ specsReply = "specs_err" THEN "failed"
                    ELSE "success",
        falha |-> found.err # "nil" \/ specsReply = "specs_err",
        specs |-> found.err = "nil" /\ specsReply = "specs"]]
  /\ firstWarm' =
       IF mwarm[c] /\ firstWarm[margs[c]] = NoWarm
       THEN [firstWarm EXCEPT ![margs[c]] =
               [err |-> found.err, typeID |-> found.typeID,
                confidence |-> found.confidence]]
       ELSE firstWarm
  /\ matched' = IF found.err = "nil" THEN matched \cup {margs[c]} ELSE matched

\* FindMatch returns an error from its brand or model stage.
MatchFails(c, err) ==
  FindMatchReturns(c, [err |-> err, typeID |-> "", confidence |-> 0, method |-> ""],
                "none")

\* processVehicle calls SearchVehicle, which calls FindMatch with the model as
\* the description.
FindMatchCall(c, i) ==
  /\ mpc[c] \in {"idle", "done"}
  /\ matchCalls < MaxMatchCalls
  /\ matchCalls' = matchCalls + 1
  /\ mpc' = [mpc EXCEPT ![c] = "brand"]
  /\ margs' = [margs EXCEPT ![c] = i]
  /\ mbrand' = [mbrand EXCEPT ![c] = <<>>]
  /\ mmodel' = [mmodel EXCEPT ![c] = <<>>]
  /\ mwarm' = [mwarm EXCEPT ![c] = Warm(MatchInputs[i])]
  /\ mllmFailed' = [mllmFailed EXCEPT ![c] = FALSE]
  /\ mOut' = [mOut EXCEPT ![c] = NoMatch]
  /\ mrepeat' = [mrepeat EXCEPT ![c] = IF i \in matched THEN "repeat" ELSE "first"]
  /\ UNCHANGED <<brandCache, modelCache, stub, firstWarm, matched>>
  /\ UNCHANGED notMatcherVars

\* matchBrand: the cache lookup.
MatchBrandLoad(c) ==
  LET cached == CacheLoad(brandCache, MatchInputs[margs[c]].wegaBrand)
  IN  /\ mpc[c] = "brand"
      /\ IF cached # NoEntry
         THEN /\ mbrand' = [mbrand EXCEPT ![c] = cached]
              /\ mpc' = [mpc EXCEPT ![c] = "model"]
         ELSE /\ mpc' = [mpc EXCEPT ![c] = "brandMiss"]
              /\ UNCHANGED mbrand
      /\ UNCHANGED <<brandCache, modelCache, stub, margs, mmodel, mwarm,
                     mllmFailed, mOut, matchCalls, firstWarm, matched, mrepeat>>
      /\ UNCHANGED notMatcherVars

\* matchBrand after a miss: catalog, aliases, Disambiguator; the Store.
MatchBrandMiss(c, answer) ==
  /\ mpc[c] = "brandMiss"
  /\ \E in \in {MatchInputs[margs[c]]} :
     \E r \in {matchBrandMiss(in.wegaBrand, answer)} :
       /\ StubAllows(r, answer)
       /\ stub' = StubAsked(r, answer)
       /\ Asks(c, r)
       /\ mllmFailed' = [mllmFailed EXCEPT ![c] = @ \/ (r.asked /\ r.err)]
       /\ IF r.err
          THEN /\ MatchFails(c, "brand not found")
               /\ UNCHANGED <<brandCache, mbrand>>
          ELSE /\ brandCache' = CacheStore(brandCache, in.wegaBrand, r.name)
               /\ mbrand' = [mbrand EXCEPT ![c] = r.name]
               /\ mpc' = [mpc EXCEPT ![c] = "model"]
               /\ UNCHANGED <<mOut, firstWarm, matched>>
  /\ UNCHANGED <<modelCache, margs, mmodel, mwarm, matchCalls>>
  /\ UNCHANGED notMatcherVars

\* matchModel: the cache lookup.
MatchModelLoad(c) ==
  LET cached == CacheLoad(modelCache,
                          cacheKey(mbrand[c], MatchInputs[margs[c]].wegaModel))
  IN  /\ mpc[c] = "model"
      /\ IF cached # NoEntry
         THEN /\ mmodel' = [mmodel EXCEPT ![c] = cached]
              /\ mpc' = [mpc EXCEPT ![c] = "types"]
         ELSE /\ mpc' = [mpc EXCEPT ![c] = "modelMiss"]
              /\ UNCHANGED mmodel
      /\ UNCHANGED <<brandCache, modelCache, stub, margs, mbrand, mwarm,
                     mllmFailed, mOut, matchCalls, firstWarm, matched, mrepeat>>
      /\ UNCHANGED notMatcherVars

\* matchModel after a miss: exact name, partial name, Disambiguator; the Store.
MatchModelMiss(c, answer) ==
  /\ mpc[c] = "modelMiss"
  /\ \E in \in {MatchInputs[margs[c]]} :
     \E r \in {matchModelMiss(mbrand[c], in.wegaModel, answer)} :
       /\ StubAllows(r, answer)
       /\ stub' = StubAsked(r, answer)
       /\ Asks(c, r)
       /\ mllmFailed' = [mllmFailed EXCEPT ![c] = @ \/ (r.asked /\ r.err)]
       /\ IF r.err
          THEN /\ MatchFails(c, "model not found")
               /\ UNCHANGED <<modelCache, mmodel>>
          ELSE /\ modelCache' = CacheStore(modelCache,
                                           cacheKey(mbrand[c], in.wegaModel), r.name)
               /\ mmodel' = [mmodel EXCEPT ![c] = r.name]
               /\ mpc' = [mpc EXCEPT ![c] = "types"]
               /\ UNCHANGED <<mOut, firstWarm, matched>>
  /\ UNCHANGED <<brandCache, margs, mbrand, mwarm, matchCalls>>
  /\ UNCHANGED notMatcherVars

\* Steps 3 to 6 of FindMatch, and what processVehicle does with the result.
ResolveType(c, answer, specsReply) ==
  /\ mpc[c] = "types"
  /\ \E r \in {resolveType(MatchInputs[margs[c]], mbrand[c], mmodel[c], answer)} :
       /\ StubAllows(r, answer)
       /\ stub' = StubAsked(r, answer)
       /\ Asks(c, r)
       /\ mllmFailed' = [mllmFailed EXCEPT ![c] = @ \/ r.llmErr]
       /\ IF r.err = "nil" THEN specsReply # "none" ELSE specsReply = "none"
       /\ FindMatchReturns(c, r, specsReply)
  /\ UNCHANGED <<brandCache, modelCache, margs, mbrand, mmodel, mwarm,
                 matchCalls>>
  /\ UNCHANGED notMatcherVars

SpecsReplies == {"specs", "specs_err", "none"}

MatcherInit == ScraperIdle /\ ClientsIdle

MatcherNext ==
  \/ \E c \in MatchCallers, i \in InputIds : FindMatchCall(c, i)
  \/ \E c \in MatchCallers : MatchBrandLoad(c)
  \/ \E c \in MatchCallers, answer \in 0..MaxAnswers : MatchBrandMiss(c, answer)
  \/ \E c \in MatchCallers : MatchModelLoad(c)
  \/ \E c \in MatchCallers, answer \in 0..MaxAnswers : MatchModelMiss(c, answer)
  \/ \E c \in MatchCallers, answer \in 0..MaxAnswers, specsReply \in SpecsReplies :
       ResolveType(c, answer, specsReply)

MatcherSpec == MatcherInit /\ [][MatcherNext]_vars

\* C24: when a Disambiguator call failed during the match of a vehicle, at the
\* brand, the model or the type stage, processVehicle counts the vehicle as
\* failed, a failure record is upserted for it and no specification is
\* inserted for it.
C24_DisambiguatorFailureFailsVehicle ==
  \A c \in MatchCallers :
    (mpc[c] = "done" /\ mllmFailed[c])
      => /\ mOut[c].counted = "failed"
         /\ mOut[c].falha
         /\ ~mOut[c].specs

\* C27: a match begun with both caches holding its keys returns the type id,
\* the confidence and the error that the first such match of the same brand,
\* model, description and year returned, whatever ran in between or at the
\* same time; the stub answers a prompt the same way each time.
C27_WarmMatchesAgree ==
  \A c \in MatchCallers :
    (mpc[c] = "done" /\ mwarm[c])
      => /\ mOut[c].typeID = firstWarm[margs[c]].typeID
         /\ mOut[c].confidence = firstWarm[margs[c]].confidence
         /\ mOut[c].err = firstWarm[margs[c]].err

\* Two matches of the Fiat input, both begun warm, have returned the type the
\* stub named, after a match of the VW input filled the caches too.
C27_Witness ==
  /\ matchCalls = 4
  /\ \A c \in MatchCallers :
       /\ mpc[c] = "done" /\ mwarm[c] /\ margs[c] = 3
       /\ mOut[c].method = "llm" /\ mOut[c].typeID = "t5"
  /\ CacheLoad(brandCache, <<"VW">>) # NoEntry

\* C30: when FindMatch accepts a candidate through containsAllParts, the type
\* it returns is the first candidate in list order whose name holds at least
\* two significant parts of the description, and the confidence is 0.95.
C30_HeuristicReturnsMatchingType ==
  \A c \in MatchCallers :
    (mpc[c] = "done" /\ mOut[c].method = "exact")
      => LET types == GetVehicleTypes(mbrand[c], mmodel[c])
             hits == {i \in DOMAIN types :
                        containsAllParts(types[i].Name,
                                         MatchInputs[margs[c]].wegaDescription)}
         IN  /\ hits # {}
             /\ mOut[c].typeID = types[CHOOSE i \in hits : \A j \in hits : i <= j].ID
             /\ mOut[c].confidence = 95

\* ------------------------------------------------------------ files on disk
\* A file holds the chunks written to it so far.  os.WriteFile opens the path
\* with O_WRONLY|O_CREATE|O_TRUNC, which leaves an empty file, then writes the
\* data, in one piece or in several, then closes it.
Truncated == [exists |-> TRUE, data |-> <<>>]

\* The chunks of a marshalled document: opening brace, fields, closing brace.
ChunksPerDoc == 3

\* The file after n more chunks of doc have reached it.
WriteChunks(file, doc, n) ==
  [file EXCEPT !.data = SubSeq(doc, 1, Len(file.data) + n)]

notCkptVars == <<scraperVars, fetchVars, limiterVars, poolVars, normVars,
                 repoVars, matcherVars, cacheVars, adapterVars>>
notCacheVars == <<scraperVars, fetchVars, limiterVars, poolVars, normVars,
                  repoVars, matcherVars, ckptVars, adapterVars>>

\* ------------------------------------------------------------ checkpoint file
\* The ids Save is called with.
MaxSavedID == 3

\* json.MarshalIndent of a Checkpoint: the opening brace, the fields, the
\* closing brace.
MarshalCheckpoint(lastID) == <<"{", lastID, "}">>

\* json.Unmarshal into a Checkpoint: an error unless the document is whole.
UnmarshalCheckpoint(data) ==
  IF Len(data) = ChunksPerDoc
  THEN [LastProcessedID |-> data[2], err |-> "nil"]
  ELSE [LastProcessedID |-> 0, err |-> "failed to unmarshal checkpoint"]

\* Save up to the open of os.WriteFile.
CheckpointSaveOpen(lastID) ==
  /\ ckpc = "idle"
  /\ ckOld' = ckFile
  /\ ckNew' = MarshalCheckpoint(lastID)
  /\ ckFile' = Truncated
  /\ ckpc' = "write"
  /\ ckCrashed' = FALSE
  /\ UNCHANGED ckLoaded
  /\ UNCHANGED notCkptVars

\* os.WriteFile writes n more chunks; after the last one Save returns.
CheckpointSaveWrite(n) ==
  /\ ckpc = "write"
  /\ n <= Len(ckNew) - Len(ckFile.data)
  /\ ckFile' = WriteChunks(ckFile, ckNew, n)
  /\ ckpc' = IF ckFile'.data = ckNew THEN "idle" ELSE "write"
  /\ UNCHANGED <<ckNew, ckOld, ckLoaded, ckCrashed>>
  /\ UNCHANGED notCkptVars

\* The process dies inside Save and is started again.
CheckpointCrash ==
  /\ ckpc = "write"
  /\ ckpc' = "idle"
  /\ ckCrashed' = TRUE
  /\ ckLoaded' = NothingLoaded
  /\ UNCHANGED <<ckFile, ckNew, ckOld>>
  /\ UNCHANGED notCkptVars

\* Load, called by the run when no Save is in progress.
CheckpointLoad ==
  /\ ckpc = "idle"
  /\ ckLoaded' = IF ~ckFile.exists THEN [LastProcessedID |-> 0, err |-> "nil"]
                 ELSE UnmarshalCheckpoint(ckFile.data)
  /\ UNCHANGED <<ckFile, ckpc, ckNew, ckOld, ckCrashed>>
  /\ UNCHANGED notCkptVars

\* Delete.
CheckpointDelete ==
  /\ ckpc = "idle"
  /\ ckFile.exists
  /\ ckFile' = NoFile
  /\ ckCrashed' = FALSE
  /\ UNCHANGED <<ckpc, ckNew, ckOld, ckLoaded>>
  /\ UNCHANGED notCkptVars

CkptInit == ScraperIdle /\ ClientsIdle

CkptNext ==
  \/ \E lastID \in 1..MaxSavedID : CheckpointSaveOpen(lastID)
  \/ \E n \in 1..ChunksPerDoc : CheckpointSaveWrite(n)
  \/ CheckpointCrash
  \/ CheckpointLoad
  \/ CheckpointDelete

CkptSpec == CkptInit /\ [][CkptNext]_vars

\* ------------------------------------------------------------ catalog cache
\* The catalogs the API hands out, numbered by fetch.
MaxFetches == 3

\* The models the API knows for the one brand crawled, and the years
\* fetchFromAPI asks for, in the order of yearsToTry.
NumModels == 2
YearsTried == 2
ModelIds == 1..NumModels
Years == 1..YearsTried

\* GetModels(brand, year) of the API: model 1 is listed in every year, the
\* others only in the first year asked.
ListedIn(year) == IF year = 1 THEN [i \in 1..NumModels |-> i] ELSE <<1>>

\* The replies a crawl can get: the years whose GetModels call fails, the
\* models whose GetVehicleTypes call fails.
ModelsErrs == SUBSET Years
TypesErrs == SUBSET ModelIds

\* json.MarshalIndent of a MotulCatalog.
MarshalCatalog(catalog) == <<"{", catalog, "}">>

\* json.Unmarshal into a MotulCatalog.
UnmarshalCatalog(data) ==
  IF Len(data) = ChunksPerDoc
  THEN [version |-> data[2], err |-> FALSE]
  ELSE [version |-> NoCatalog, err |-> TRUE]

\* loadFromFile; stale: the catalog in the file is older than seven days.
loadFromFile(stale) ==
  IF ~caFile.exists THEN [version |-> NoCatalog, err |-> TRUE]
  ELSE IF UnmarshalCatalog(caFile.data).err THEN [version |-> NoCatalog, err |-> TRUE]
  ELSE IF stale THEN [version |-> NoCatalog, err |-> TRUE]
  ELSE UnmarshalCatalog(caFile.data)

\* The loop over yearsToTry for one brand, from year on: a year whose GetModels
\* fails is passed over; a model not seen before is appended, with its types,
\* or with no types when its GetVehicleTypes fails.
RECURSIVE CrawlModels(_, _, _, _)
CrawlModels(year, models, modelsErr, typesErr) ==
  IF year > YearsTried THEN models
  ELSE IF year \in modelsErr
  THEN CrawlModels(year + 1, models, modelsErr, typesErr)
  ELSE LET seen == {models[i].ID : i \in DOMAIN models}
           fresh == SelectSeq(ListedIn(year), LAMBDA m : m \notin seen)
           added == [i \in DOMAIN fresh |->
                       [ID |-> fresh[i],
                        Types |-> IF fresh[i] \in typesErr THEN <<>>
                                  ELSE <<fresh[i]>>]]
       IN CrawlModels(year + 1, models \o added, modelsErr, typesErr)

\* fetchFromAPI after GetBrands returned the brand: the catalog it returns,
\* stamped with the time of the crawl.
fetchFromAPI(now, modelsErr, typesErr) ==
  [LoadedAt |-> now,
   Brands |-> <<[ID |-> 1, Models |-> CrawlModels(1, <<>>, modelsErr, typesErr)]>>]

\* A GetModels or GetVehicleTypes call of the crawl returned an error.
ListingFailed(modelsErr, typesErr) ==
  \/ modelsErr # {}
  \/ \E m \in typesErr :
       \E i \in DOMAIN CrawlModels(1, <<>>, modelsErr, {}) :
         CrawlModels(1, <<>>, modelsErr, {})[i].ID = m

\* LoadOrFetch up to saveToFile: the cache is good, or the API is asked;
\* fetchFromAPI fails (GetBrands fails or the context is done) or hands out
\* the catalog it crawled.
LoadOrFetch(stale, apiFails, modelsErr, typesErr) ==
  /\ capc = "idle"
  /\ IF ~loadFromFile(stale).err
     THEN /\ caCatalog' = loadFromFile(stale).version
          /\ UNCHANGED <<capc, caNew, caFetches, caListingFailed>>
     ELSE IF apiFails
     THEN UNCHANGED <<capc, caNew, caFetches, caCatalog, caListingFailed>>
     ELSE /\ caFetches < MaxFetches
          /\ caFetches' = caFetches + 1
          /\ caNew' = MarshalCatalog(fetchFromAPI(caFetches + 1, modelsErr, typesErr))
          /\ caListingFailed' = IF ListingFailed(modelsErr, typesErr)
                                THEN caListingFailed \cup {caFetches + 1}
                                ELSE caListingFailed
          /\ capc' = "save"
          /\ UNCHANGED caCatalog
  /\ UNCHANGED <<caFile, caOld, caCrashed>>
  /\ UNCHANGED notCacheVars

\* saveToFile up to the open of os.WriteFile.
CatalogSaveOpen ==
  /\ capc = "save"
  /\ caOld' = caFile
  /\ caFile' = Truncated
  /\ capc' = "write"
  /\ caCrashed' = FALSE
  /\ UNCHANGED <<caNew, caCatalog, caFetches, caListingFailed>>
  /\ UNCHANGED notCacheVars

\* os.WriteFile writes n more chunks; after the last one saveToFile returns
\* and LoadOrFetch installs the catalog.
CatalogSaveWrite(n) ==
  /\ capc = "write"
  /\ n <= Len(caNew) - Len(caFile.data)
  /\ caFile' = WriteChunks(caFile, caNew, n)
  /\ IF caFile'.data = caNew
     THEN /\ capc' = "idle"
          /\ caCatalog' = UnmarshalCatalog(caNew).version
     ELSE UNCHANGED <<capc, caCatalog>>
  /\ UNCHANGED <<caNew, caOld, caFetches, caCrashed, caListingFailed>>
  /\ UNCHANGED notCacheVars

\* The process dies inside LoadOrFetch and is started again.
CatalogCrash ==
  /\ capc # "idle"
  /\ capc' = "idle"
  /\ caCatalog' = NoCatalog
  /\ caCrashed' = (capc = "write")
  /\ UNCHANGED <<caFile, caNew, caOld, caFetches, caListingFailed>>
  /\ UNCHANGED notCacheVars

CacheInit == ScraperIdle /\ ClientsIdle

CacheNext ==
  \/ \E stale \in BOOLEAN, apiFails \in BOOLEAN, modelsErr \in ModelsErrs,
        typesErr \in TypesErrs :
       LoadOrFetch(stale, apiFails, modelsErr, typesErr)
  \/ CatalogSaveOpen
  \/ \E n \in 1..ChunksPerDoc : CatalogSaveWrite(n)
  \/ CatalogCrash

CacheSpec == CacheInit /\ [][CacheNext]_vars

\* C25: at every instant the file at the cache path is absent, or is the whole
\* catalog that was there before the save, or is the whole catalog being
\* saved; also after a crash during the save.
C25_CacheFileNeverPartial ==
  \/ ~caFile.exists
  \/ /\ ~UnmarshalCatalog(caFile.data).err
     /\ caFile = caOld \/ caFile.data = caNew

\* C26: Load never returns the error of a partially written checkpoint, and
\* after a crash during Save the file is the whole checkpoint that was there
\* before or the whole checkpoint being saved.
C26_CheckpointSaveAtomic ==
  /\ ckLoaded.err # "failed to unmarshal checkpoint"
  /\ ckCrashed =>
       \/ ckFile = ckOld /\ (ckOld.exists => UnmarshalCheckpoint(ckOld.data).err = "nil")
       \/ ckFile.data = ckNew

\* C31: a FindMatch begun after a match of the same input has returned a
\* result makes no Disambiguator request, at the brand, the model or the type
\* stage.
C31_RepeatAsksNothing == \A c \in MatchCallers : mrepeat[c] # "asked"

\* ------------------------------------------------- specification adapter
\* The most products of a component, and the most words of a product name.
MaxProducts == 2
MaxNameWords == 2

\* The words product names are made of, character by character: 5W-30, 5W30,
\* POWER, WAX, 8100.
ProductWords ==
  {<<"5", "W", "-", "3", "0">>, <<"5", "W", "3", "0">>,
   <<"P", "O", "W", "E", "R">>, <<"W", "A", "X">>, <<"8", "1", "0", "0">>}

\* strings.Join.
RECURSIVE Join(_, _)
Join(elems, sep) ==
  IF Len(elems) = 0 THEN <<>>
  ELSE IF Len(elems) = 1 THEN elems[1]
  ELSE elems[1] \o sep \o Join(Tail(elems), sep)

\* Product names (prod.Name, never empty here) and the product lists of a
\* component, its recommendations flattened.
ProductNames ==
  {Join(words, <<" ">>) : words \in SeqsUpTo(ProductWords, MaxNameWords) \ {<<>>}}
ProductLists == SeqsUpTo(ProductNames, MaxProducts) \ {<<>>}

\* strings.Fields on a text given character by character.
RECURSIVE StringsFields(_)
StringsFields(name) ==
  IF name = <<>> THEN <<>>
  ELSE IF Head(name) = " " THEN StringsFields(Tail(name))
  ELSE IF \E i \in DOMAIN name : name[i] = " "
  THEN <<SubSeq(name, 1, IndexOfTok(name, " ") - 1)>>
         \o StringsFields(SubSeq(name, IndexOfTok(name, " "), Len(name)))
  ELSE <<name>>

\* The two tests of the loop of extractViscosity on one part.
ViscosityTest(part) ==
  \/ Len(part) >= 4 /\ StrContains(part, <<"W", "-">>)
  \/ /\ Len(part) >= 3
     /\ StrContains(part, <<"W">>)
     /\ ~(part[1] \in {"w", "W"})

\* extractViscosity: the first part that passes, the empty text for none.
extractViscosity(name) ==
  IF \E i \in DOMAIN StringsFields(name) : ViscosityTest(StringsFields(name)[i])
  THEN StringsFields(name)[CHOOSE i \in DOMAIN StringsFields(name) :
         /\ ViscosityTest(StringsFields(name)[i])
         /\ \A j \in 1..(i - 1) : ~ViscosityTest(StringsFields(name)[j])]
  ELSE <<>>

\* unique: the first occurrence of each string, in order.
RECURSIVE unique(_)
unique(strs) ==
  IF strs = <<>> THEN <<>>
  ELSE <<Head(strs)>>
         \o unique(SelectSeq(Tail(strs), LAMBDA str : str # Head(strs)))

notAdapterVars == <<scraperVars, fetchVars, limiterVars, poolVars, normVars,
                    repoVars, matcherVars, ckptVars, cacheVars>>

\* GetSpecifications has the response and enters the loop over the products of
\* a component.
ComponentStart(products) ==
  /\ adpc \in {"idle", "done"}
  /\ adProducts' = products
  /\ adpc' = "loop"
  /\ adIndex' = 1
  /\ adViscosities' = <<>>
  /\ adSpec' = NoSpec
  /\ UNCHANGED notAdapterVars

\* One product of the loop.
ProductStep ==
  /\ adpc = "loop"
  /\ adIndex <= Len(adProducts)
  /\ adViscosities' =
       IF extractViscosity(adProducts[adIndex]) # <<>>
       THEN Append(adViscosities, extractViscosity(adProducts[adIndex]))
       ELSE adViscosities
  /\ adIndex' = adIndex + 1
  /\ UNCHANGED <<adProducts, adpc, adSpec>>
  /\ UNCHANGED notAdapterVars

\* After the loop: duplicates removed, the field joined.
ComponentDone ==
  /\ adpc = "loop"
  /\ adIndex > Len(adProducts)
  /\ adSpec' = [Viscosidade |-> Join(unique(adViscosities), <<",", " ">>)]
  /\ adpc' = "done"
  /\ UNCHANGED <<adProducts, adIndex, adViscosities>>
  /\ UNCHANGED notAdapterVars

AdapterInit == ScraperIdle /\ ClientsIdle

AdapterNext ==
  \/ \E products \in ProductLists : ComponentStart(products)
  \/ ProductStep
  \/ ComponentDone

AdapterSpec == AdapterInit /\ [][AdapterNext]_vars

\* The pattern digits, W, an optional dash, digits, on a whole token.
DigitChars == {"0", "1", "2", "3", "4", "5", "6", "7", "8", "9"}
ViscosityPattern(tok) ==
  \E w \in DOMAIN tok :
    /\ tok[w] = "W"
    /\ w > 1
    /\ \A i \in 1..(w - 1) : tok[i] \in DigitChars
    /\ \E d \in {w + 1, w + 2} :
         /\ d <= Len(tok)
         /\ d = w + 2 => tok[w + 1] = "-"
         /\ \A i \in d..Len(tok) : tok[i] \in DigitChars

\* The entries of a field joined with ", ".
FieldEntries(field) ==
  LET spaced == [i \in DOMAIN field |-> IF field[i] = "," THEN " " ELSE field[i]]
  IN  {StringsFields(spaced)[i] : i \in DOMAIN StringsFields(spaced)}

\* C32: when a component has been processed, every product name with a token
\* that matches the viscosity pattern has such a token of its own among the
\* entries of the emitted viscosity field, and every entry of the field
\* matches the pattern.
C32_ViscosityFieldHoldsPatternTokens ==
  adpc = "done" =>
    /\ \A p \in DOMAIN adProducts :
         (\E i \in DOMAIN StringsFields(adProducts[p]) :
            ViscosityPattern(StringsFields(adProducts[p])[i]))
         => \E i \in DOMAIN StringsFields(adProducts[p]) :
              /\ ViscosityPattern(StringsFields(adProducts[p])[i])
              /\ StringsFields(adProducts[p])[i] \in FieldEntries(adSpec.Viscosidade)
    /\ \A entry \in FieldEntries(adSpec.Viscosidade) : ViscosityPattern(entry)

\* ------------------------------------------- scraper: counters and rows
\* The workers inside processVehicle past IncrementProcessed: those waiting for
\* SearchVehicle or for GetSpecifications.
InFlight == {w \in WorkerIds : wpc[w] \in {"search", "specs"}}

\* C33: when a run that is not a dry run has returned (no vehicle is in
\* flight then), the exact-match and fuzzy-match counters add up to the
\* success counter.
C33_MatchCountersAddUpToSuccess ==
  (cpc = "returned" /\ ~config.DryRun)
    => progress.ExactMatch + progress.FuzzyMatch = progress.Success

\* C34: no step adds an OilSpecification row for a vehicle that already has
\* one, whatever the existence check returned.
C34_NoInsertForVehicleWithRows ==
  [][\A id \in VehicleIds :
       especificacoes'[id] > especificacoes[id] => especificacoes[id] = 0]_vars

C36_SuccessHasPersistedRow ==
  ~config.DryRun =>
    \A id \in VehicleIds :
      (\E i \in DOMAIN outcomeLog[id] : outcomeLog[id][i] = "success")
        => especificacoes[id] > 0

\* C37: in a run configured with ResumeFromID R > 0 no vehicle with an id
\* below R is fed, also when R is above every vehicle id.
C37_NothingFedBelowResumeID ==
  config.ResumeFromID > 0 => \A id \in Fed : id >= config.ResumeFromID

\* C38: a run that loaded a checkpoint, and is not told by ResumeFromID to
\* start elsewhere, writes no checkpoint with a smaller last_processed_id than
\* the one it loaded.
C38_CheckpointNeverBelowLoaded ==
  (loadedID # NoCheckpoint /\ config.ResumeFromID = 0)
    => \A i \in DOMAIN saveLog : saveLog[i] >= loadedID


\* C39: calling Stop on the Rate Limiter never makes the token generator send on
\* the closed requests channel: whatever way Stop interleaves with a tick that is
\* being handed off, the generator goroutine does not panic.
C39_NoSendOnClosedChannel == ~generatorPanicked

\* C40: LoadOrFetch persists and returns a crawled catalog only if every
\* GetModels and every GetVehicleTypes call of its crawl succeeded: neither the
\* catalog installed nor a whole catalog in the cache file comes from a crawl in
\* which a listing failed.
C40_CachedCatalogCrawledWithoutErrors ==
  /\ caCatalog.LoadedAt \notin caListingFailed
  /\ (caFile.exists /\ ~UnmarshalCatalog(caFile.data).err)
       => UnmarshalCatalog(caFile.data).version.LoadedAt \notin caListingFailed

============================================================================
